---- MODULE Spec2Model ----
(***************************************************************************)
(* Soros chatbot: the knowledge store with its snapshot file               *)
(* (src/src/soros_knowledge_base.py), the conversation engine              *)
(* (src/src/soros_chatbot.py) and the chunker of the PDF reader            *)
(* (src/src/pdf_reader.py).                                                *)
(*                                                                         *)
(* A text is a sequence of one-character strings, so that lower(), the     *)
(* substring test and concatenation are computed as Python computes them.  *)
(* The fixed paragraphs of the prompt templates are single tokens.  The    *)
(* seed texts are abbreviated to excerpts of the source's texts.           *)
(***************************************************************************)
EXTENDS Integers, Sequences, FiniteSets, TLC

VARIABLES
    pc,              \* per store instance: "down", "idle" or "saving"
    op,              \* per store instance: the mutating call in progress or last completed
    save_result,     \* per store instance: how its last save_knowledge_base ended
    soros_concepts,  \* per store instance: self.soros_concepts (insertion-ordered dict)
    soros_quotes,    \* per store instance: self.soros_quotes
    file,            \* data/soros/soros_knowledge.json, shared by the store instances
    starts,          \* number of constructions so far
    faults,          \* number of file operations that failed so far
    calls,           \* number of chat, add_concept and add_quote calls so far
    transcript,      \* engine: self.memory.chat_memory.messages
    system_prompt,   \* engine: self.system_prompt
    outbound,        \* the message sequence last handed to self.llm
    ret,             \* the value the last chat call returned
    last,            \* engine: the last call of chat or clear_memory, with the transcript before it
    text,            \* chunker: the text argument
    chunk_size,      \* chunker: the chunk_size argument
    overlap,         \* chunker: the overlap argument
    chunks,          \* chunker: the returned list
    cpc,             \* chunker: "input", "returned" or "raised"
    reader,          \* PDF reader: the file given to it, its raw and cleaned text so far
    loaded_pdfs,     \* engine: self.loaded_pdfs
    pending,         \* engine: the quotes the loop of load_pdf has still to add
    load,            \* engine: the last call of load_pdf, with the state before it and its result
    answer,          \* the last call of search_concepts or get_random_quote and what it gave
    chatbot,         \* API process: the global chatbot, "unset", "none" or "up"
    response,        \* API process: the endpoint last requested and its response
    tmp_files        \* API process: number of temporary files written so far

storeVars == <<pc, op, save_result, soros_concepts, soros_quotes, file, starts, faults, calls>>
chatVars == <<transcript, system_prompt, outbound, ret, last>>
chunkVars == <<text, chunk_size, overlap, chunks, cpc, reader>>
ingestVars == <<loaded_pdfs, pending, load>>
apiVars == <<chatbot, response, tmp_files>>
vars == <<storeVars, chatVars, chunkVars, ingestVars, answer, apiVars>>

(***************************************************************************)
(* Bounds of the model.                                                    *)
(***************************************************************************)
MaxStarts == 2
MaxFaults == 1
MaxCalls == 3
MaxWords == 6
MaxChunkSize == 3

(***************************************************************************)
(* Texts.                                                                  *)
(***************************************************************************)
UpperCase == <<"A","B","C","D","E","F","G","H","I","J","K","L","M",
               "N","O","P","Q","R","S","T","U","V","W","X","Y","Z">>
LowerCase == <<"a","b","c","d","e","f","g","h","i","j","k","l","m",
               "n","o","p","q","r","s","t","u","v","w","x","y","z">>

\* str.lower() on one character
LowerChar(c) ==
    IF \E i \in 1..26 : UpperCase[i] = c
    THEN LowerCase[CHOOSE i \in 1..26 : UpperCase[i] = c]
    ELSE c

\* str.lower()
Lower(t) == [i \in 1..Len(t) |-> LowerChar(t[i])] \o <<>>

\* Python's  needle in hay  on strings
InText(needle, hay) ==
    \E i \in 0..(Len(hay) - Len(needle)) :
        SubSeq(hay, i + 1, i + Len(needle)) = needle

\* Python's  x in list
InList(x, l) == \E i \in 1..Len(l) : l[i] = x

RECURSIVE Concat(_)
\* the concatenation of a sequence of texts
Concat(ts) == IF ts = <<>> THEN <<>> ELSE Head(ts) \o Concat(Tail(ts))

(***************************************************************************)
(* Seed data of SorosKnowledgeBase.__init__.                               *)
(***************************************************************************)
N_reflexivity == <<"r","e","f","l","e","x","i","v","i","t","y">>
N_open_society == <<"o","p","e","n","_","s","o","c","i","e","t","y">>
N_market_fundamentalism ==
    <<"m","a","r","k","e","t","_","f","u","n","d","a","m","e","n","t","a","l","i","s","m">>
N_bubble == <<"b","u","b","b","l","e">>

D_reflexivity == <<"m","a","r","k","e","t"," ","p","a","r","t","i","c","i","p","a","n","t","s">>
D_open_society == <<"r","u","l","e"," ","o","f"," ","l","a","w">>
D_market_fundamentalism == <<"m","a","r","k","e","t","s"," ","a","r","e"," ","r","i","g","h","t">>
D_bubble == <<"M","a","r","k","e","t"," ","b","u","b","b","l","e">>
D_custom == <<"c","u","s","t","o","m">>

K_fallibility == <<"F","a","l","l","i","b","i","l","i","t","y">>
K_rule_of_law == <<"R","u","l","e"," ","o","f"," ","l","a","w">>
K_regulation == <<"N","e","e","d"," ","f","o","r"," ","r","e","g","u","l","a","t","i","o","n">>

Entry(name, definition, key_points) ==
    [name |-> name, definition |-> definition, key_points |-> key_points]

SeedConcepts ==
    << Entry(N_reflexivity, D_reflexivity, <<K_fallibility>>),
       Entry(N_open_society, D_open_society, <<K_rule_of_law>>),
       Entry(N_market_fundamentalism, D_market_fundamentalism, <<K_regulation>>) >>

Q_speculator == <<"I"," ","a","m"," ","a"," ","s","p","e","c","u","l","a","t","o","r",".">>
Q_euro == <<"T","h","e"," ","e","u","r","o",".">>
Q_custom == <<"B","o","o","m",".">>
Q_other == <<"B","u","s","t",".">>

SeedQuotes == <<Q_speculator, Q_euro>>

WritingStyle ==
    [ tone |-> <<"philosophical, analytical, and often critical">>,
      vocabulary |-> << <<"reflexivity">>, <<"fallibility">>, <<"open society">>,
                        <<"market fundamentalism">>, <<"boom-bust cycles">>,
                        <<"bubble">>, <<"regulation">>, <<"democracy">>,
                        <<"capitalism">>, <<"globalization">>, <<"inequality">>,
                        <<"sustainability">> >>,
      sentence_structure |-> <<"complex, often using philosophical concepts">>,
      perspective |-> <<"global, long-term, and systemic">> ]

(***************************************************************************)
(* Inputs.                                                                 *)
(***************************************************************************)
Stores == {1, 2}
Engine == 1

M_market == <<"M","a","r","k","e","t">>
Messages == {M_market}

R_reply == <<"I"," ","s","e","e",".">>
Replies == {R_reply}

QuoteInputs == {Q_custom, Q_other}
ConceptInputs ==
    { Entry(N_bubble, D_bubble, <<>>),
      Entry(N_reflexivity, D_custom, <<K_fallibility>>) }

(***************************************************************************)
(* The insertion-ordered dict self.soros_concepts: a sequence of entries   *)
(* with pairwise different names.                                          *)
(***************************************************************************)
HasKey(d, name) == \E i \in 1..Len(d) : d[i].name = name

KeyIndex(d, name) == CHOOSE i \in 1..Len(d) : d[i].name = name

\* an assignment that leaves an existing key as it is
DictSet_KeepFirst(d, e) ==
    IF HasKey(d, e.name)
    THEN d
    ELSE Append(d, e)

\* d[e.name] = {definition, key_points}: an existing key keeps its position
DictSet(d, e) ==
    IF HasKey(d, e.name)
    THEN [d EXCEPT ![KeyIndex(d, e.name)] = e]
    ELSE Append(d, e)

RECURSIVE DictUpdate(_, _)
\* dict.update(other)
DictUpdate(d, other) ==
    IF other = <<>> THEN d
    ELSE DictUpdate(DictSet(d, Head(other)), Tail(other))

(***************************************************************************)
(* JSON documents: an object is a sequence of <<key, value>> members, an   *)
(* array is a sequence, a string is a text.                                *)
(***************************************************************************)
HasMember(obj, key) == \E i \in 1..Len(obj) : obj[i][1] = key

\* dict.get(key, default) on a decoded object
JsonGet(obj, key, default) ==
    IF HasMember(obj, key)
    THEN obj[CHOOSE i \in 1..Len(obj) : obj[i][1] = key][2]
    ELSE default

StyleToJson(ws) ==
    << <<"tone", ws.tone>>, <<"vocabulary", ws.vocabulary>>,
       <<"sentence_structure", ws.sentence_structure>>,
       <<"perspective", ws.perspective>> >>

ConceptsToJson(d) ==
    [i \in 1..Len(d) |->
        <<d[i].name, << <<"definition", d[i].definition>>,
                        <<"key_points", d[i].key_points>> >> >>]

\* a dump that leaves the quotes out
JsonDump_NoQuotes(data) ==
    << <<"concepts", ConceptsToJson(data.concepts)>>,
       <<"writing_style", StyleToJson(data.writing_style)>> >>

\* json.dump(data, f, indent=2, ensure_ascii=False)
JsonDump(data) ==
    << <<"concepts", ConceptsToJson(data.concepts)>>,
       <<"quotes", data.quotes>>,
       <<"writing_style", StyleToJson(data.writing_style)>> >>

\* the concepts of a decoded document, as data.get('concepts', {}) yields them
ConceptsFromJson(doc) ==
    LET members == JsonGet(doc, "concepts", <<>>)
    IN  [i \in 1..Len(members) |->
            Entry(members[i][1],
                  JsonGet(members[i][2], "definition", <<>>),
                  JsonGet(members[i][2], "key_points", <<>>))]

\* data.get('quotes', [])
QuotesFromJson(doc) == JsonGet(doc, "quotes", <<>>)

(***************************************************************************)
(* The snapshot file.                                                      *)
(***************************************************************************)
AbsentFile == [kind |-> "absent", doc |-> <<>>]
\* open(knowledge_file, 'w') truncates the file
EmptyFile == [kind |-> "empty", doc |-> <<>>]
\* the bytes of one document written over a longer one: not a JSON document
GarbledFile == [kind |-> "garbled", doc |-> <<>>]
JsonFile(doc) == [kind |-> "json", doc |-> doc]

\* the dict save_knowledge_base builds from the store's fields
Snapshot(s) ==
    [concepts |-> soros_concepts[s], quotes |-> soros_quotes[s],
     writing_style |-> WritingStyle]

NoCall ==
    [name |-> "none", message |-> <<>>, use_context |-> FALSE,
     outcome |-> "none", before |-> <<>>]

NoOp == [name |-> "none", arg |-> <<>>]

NoResult == [success |-> FALSE, error |-> <<>>, pdf_data |-> <<>>, extracted_content |-> <<>>]

NoLoad ==
    [outcome |-> "none", path |-> <<>>, result |-> NoResult,
     quotes_before |-> <<>>, pdfs_before |-> <<>>, successes |-> 0]

NoAnswer == [name |-> "none", arg |-> <<>>, outcome |-> "none", value |-> <<>>]

\* how a call ended: with an exception, or with a value
Raised(error) == [raised |-> TRUE, error |-> error, value |-> <<>>]
Returned(value) == [raised |-> FALSE, error |-> <<>>, value |-> value]

NoResponse == [endpoint |-> "none", status |-> 0, success |-> FALSE, detail |-> "none"]

\* where a store's caller goes on once save_knowledge_base returned: the loop
\* of load_pdf when the save came from it
AfterSave(s) ==
    IF s = Engine /\ load.outcome = "running" THEN "ingesting" ELSE "idle"
CallOp(name, arg) == [name |-> name, arg |-> arg]

\* save_knowledge_base up to the open(): a failing open is caught and logged
SaveOpen(s, o, open_ok) ==
    /\ op' = [op EXCEPT ![s] = o]
    /\ open_ok \/ faults < MaxFaults
    /\ faults' = IF open_ok THEN faults ELSE faults + 1
    /\ IF open_ok
       THEN /\ file' = EmptyFile
            /\ pc' = [pc EXCEPT ![s] = "saving"]
            /\ save_result' = [save_result EXCEPT ![s] = "writing"]
       ELSE /\ file' = file
            /\ pc' = [pc EXCEPT ![s] = AfterSave(s)]
            /\ save_result' = [save_result EXCEPT ![s] = "failed"]

\* a write that keeps the quotes the other store instances hold
Written_KeepingOthers(s) ==
    LET others == Concat([t \in 1..Cardinality(Stores) |->
                            IF t = s THEN <<>> ELSE soros_quotes[t]])
        kept == SelectSeq(others, LAMBDA q : ~InList(q, soros_quotes[s]))
    IN  {JsonFile(JsonDump([Snapshot(s) EXCEPT !.quotes = @ \o kept]))}

\* what the file holds after store s wrote its document from offset 0
Written(s) ==
    IF file.kind = "empty"
    THEN {JsonFile(JsonDump(Snapshot(s)))}
    ELSE {JsonFile(JsonDump(Snapshot(s))), GarbledFile}

\* save_knowledge_base from json.dump to the close of the file
SaveDump(s) ==
    /\ pc[s] = "saving"
    /\ \E dump_ok \in BOOLEAN :
        /\ dump_ok \/ faults < MaxFaults
        /\ faults' = IF dump_ok THEN faults ELSE faults + 1
        /\ IF dump_ok
           THEN /\ file' \in Written(s)
                /\ save_result' = [save_result EXCEPT ![s] = "ok"]
           ELSE /\ file' = file
                /\ save_result' = [save_result EXCEPT ![s] = "failed"]
    /\ pc' = [pc EXCEPT ![s] = AfterSave(s)]
    /\ UNCHANGED <<op, soros_concepts, soros_quotes, starts, calls, chatVars, chunkVars, ingestVars, answer>>

\* a merge in which the seed overrides the file
LoadedConcepts_SeedWins ==
    IF file.kind = "json"
    THEN DictUpdate(ConceptsFromJson(file.doc), SeedConcepts)
    ELSE SeedConcepts

\* load_knowledge_base up to the save: the merge of the file into the seed
LoadedConcepts ==
    IF file.kind = "json"
    THEN DictUpdate(SeedConcepts, ConceptsFromJson(file.doc))
    ELSE SeedConcepts

LoadedQuotes ==
    IF file.kind = "json"
    THEN SeedQuotes \o QuotesFromJson(file.doc)
    ELSE SeedQuotes

\* _create_system_prompt
CreateSystemPrompt ==
    LET style_guide == WritingStyle
    IN  <<"You are George Soros ... WRITING STYLE: - Tone: ">>
        \o style_guide.tone
        \o <<" - Vocabulary: Use terms like ">>
        \o Concat(SubSeq(style_guide.vocabulary, 1, 5))
        \o <<" and others - Sentence structure: ">>
        \o style_guide.sentence_structure
        \o <<" - Perspective: ">>
        \o style_guide.perspective
        \o <<" KEY CONCEPTS ... RESPONSE GUIDELINES ...">>

\* SorosKnowledgeBase.__init__ (and, for the engine, SorosChatbot.__init__)
Construct(s) ==
    /\ pc[s] = "down"
    /\ starts < MaxStarts
    /\ starts' = starts + 1
    /\ soros_concepts' = [soros_concepts EXCEPT ![s] = LoadedConcepts]
    /\ soros_quotes' = [soros_quotes EXCEPT ![s] = LoadedQuotes]
    /\ \E open_ok \in BOOLEAN : SaveOpen(s, CallOp("init", <<>>), open_ok)
    /\ IF s = Engine
       THEN /\ transcript' = <<>>
            /\ system_prompt' = CreateSystemPrompt
            /\ outbound' = <<>>
            /\ ret' = <<>>
            /\ last' = NoCall
            /\ loaded_pdfs' = <<>>
            /\ pending' = <<>>
            /\ load' = NoLoad
       ELSE UNCHANGED <<chatVars, ingestVars>>
    /\ UNCHANGED <<calls, chunkVars, answer>>

\* the process owning store s exits: its memory is gone, the file stays
Exit(s) ==
    /\ pc[s] = "idle"
    /\ pc' = [pc EXCEPT ![s] = "down"]
    /\ op' = [op EXCEPT ![s] = NoOp]
    /\ save_result' = [save_result EXCEPT ![s] = "none"]
    /\ soros_concepts' = [soros_concepts EXCEPT ![s] = <<>>]
    /\ soros_quotes' = [soros_quotes EXCEPT ![s] = <<>>]
    /\ IF s = Engine
       THEN /\ transcript' = <<>>
            /\ system_prompt' = <<>>
            /\ outbound' = <<>>
            /\ ret' = <<>>
            /\ last' = NoCall
            /\ loaded_pdfs' = <<>>
            /\ pending' = <<>>
            /\ load' = NoLoad
       ELSE UNCHANGED <<chatVars, ingestVars>>
    /\ UNCHANGED <<file, starts, faults, calls, chunkVars, answer>>

\* an add_concept after which the engine renders its prompt again
add_concept_Rendering(s, e) ==
    /\ pc[s] = "idle"
    /\ calls < MaxCalls
    /\ calls' = calls + 1
    /\ soros_concepts' = [soros_concepts EXCEPT ![s] = DictSet(soros_concepts[s], e)]
    /\ \E open_ok \in BOOLEAN : SaveOpen(s, CallOp("add_concept", e.name), open_ok)
    /\ system_prompt' = CreateSystemPrompt \o <<" - ">> \o e.name
    /\ UNCHANGED <<soros_quotes, starts, transcript, outbound, ret, last,
                   chunkVars, ingestVars, answer>>

\* add_concept
add_concept(s, e) ==
    /\ pc[s] = "idle"
    /\ calls < MaxCalls
    /\ calls' = calls + 1
    /\ soros_concepts' = [soros_concepts EXCEPT ![s] = DictSet(soros_concepts[s], e)]
    /\ \E open_ok \in BOOLEAN : SaveOpen(s, CallOp("add_concept", e.name), open_ok)
    /\ UNCHANGED <<soros_quotes, starts, chatVars, chunkVars, ingestVars, answer>>

\* an add_quote without the membership test
add_quote_NoCheck(s, quote) ==
    /\ pc[s] = "idle"
    /\ calls < MaxCalls
    /\ calls' = calls + 1
    /\ soros_quotes' = [soros_quotes EXCEPT ![s] = Append(soros_quotes[s], quote)]
    /\ \E open_ok \in BOOLEAN : SaveOpen(s, CallOp("add_quote", quote), open_ok)
    /\ UNCHANGED <<soros_concepts, starts, chatVars, chunkVars, ingestVars, answer>>

\* an add_quote that saves whether or not it appended
AddQuote_AlwaysSaving(s, quote) ==
    /\ soros_quotes' = [soros_quotes EXCEPT ![s] =
                           IF InList(quote, @) THEN @ ELSE Append(@, quote)]
    /\ \E open_ok \in BOOLEAN : SaveOpen(s, CallOp("add_quote", quote), open_ok)

\* the body of SorosKnowledgeBase.add_quote
AddQuote(s, quote) ==
    IF ~InList(quote, soros_quotes[s])
    THEN /\ soros_quotes' = [soros_quotes EXCEPT ![s] = Append(soros_quotes[s], quote)]
         /\ \E open_ok \in BOOLEAN : SaveOpen(s, CallOp("add_quote", quote), open_ok)
    ELSE /\ op' = [op EXCEPT ![s] = CallOp("add_quote_present", quote)]
         /\ UNCHANGED <<soros_quotes, file, pc, save_result, faults>>

\* add_quote, called on an idle store
add_quote(s, quote) ==
    /\ pc[s] = "idle"
    /\ calls < MaxCalls
    /\ calls' = calls + 1
    /\ AddQuote(s, quote)
    /\ UNCHANGED <<soros_concepts, starts, chatVars, chunkVars, ingestVars, answer>>

(***************************************************************************)
(* Search, the quote draw and the context prompt.                          *)
(***************************************************************************)
\* the test of search_concepts on one concept
Matches(query_lower, e) ==
    \/ InText(query_lower, Lower(e.name))
    \/ InText(query_lower, Lower(e.definition))
    \/ \E k \in 1..Len(e.key_points) : InText(query_lower, Lower(e.key_points[k]))

\* a search that takes the query as it is written
search_concepts_QueryAsWritten(s, query) ==
    SelectSeq(soros_concepts[s], LAMBDA e : Matches(query, e))

\* search_concepts
search_concepts(s, query) ==
    LET query_lower == Lower(query)
    IN  SelectSeq(soros_concepts[s], LAMBDA e : Matches(query_lower, e))

\* a slice that takes every result
Top3_All(l) == l

\* relevant_concepts[:3]
Top3(l) == SubSeq(l, 1, IF Len(l) < 3 THEN Len(l) ELSE 3)

RECURSIVE ConceptLines(_)
\* the "- name: definition" lines of generate_context_prompt
ConceptLines(l) ==
    IF l = <<>> THEN <<>>
    ELSE <<"- ">> \o Head(l).name \o <<": ">> \o Head(l).definition \o <<"\n">>
         \o ConceptLines(Tail(l))

\* generate_context_prompt, given the quote get_random_quote drew
generate_context_prompt(s, user_query, relevant_quote) ==
    LET relevant_concepts == search_concepts(s, user_query)
    IN  <<"You are George Soros ... Key aspects of your thinking: ... Relevant quote: \"">>
        \o relevant_quote \o <<"\"\n\n">>
        \o (IF relevant_concepts # <<>>
            THEN <<"Relevant concepts:\n">> \o ConceptLines(Top3(relevant_concepts))
            ELSE <<>>)
        \o <<"\nRespond to the user's question in your characteristic philosophical and analytical style: ">>
        \o user_query

(***************************************************************************)
(* The read-only calls of the engine: search_knowledge_base and            *)
(* get_random_quote.                                                       *)
(***************************************************************************)
QY_MARKET == <<"M","A","R","K","E","T">>
QY_market == <<"m","a","r","k","e","t">>
Queries == {QY_MARKET, QY_market, <<"L","a","w">>, <<"z","z","z">>, <<>>}

\* SorosChatbot.search_knowledge_base
search_knowledge_base(query) ==
    /\ pc[Engine] = "idle"
    /\ answer' = [name |-> "search", arg |-> query, outcome |-> "returned",
                  value |-> search_concepts(Engine, query)]
    /\ UNCHANGED <<storeVars, chatVars, chunkVars, ingestVars>>

\* a draw that gives an empty value for an empty list
RandomChoice_EmptyValue(l) ==
    IF l = <<>>
    THEN {Returned(<<>>)}
    ELSE {Returned(l[k]) : k \in 1..Len(l)}

\* random.choice(l): IndexError on an empty list
RandomChoice(l) ==
    IF l = <<>>
    THEN {Raised(<<"Cannot choose from an empty sequence">>)}
    ELSE {Returned(l[k]) : k \in 1..Len(l)}

\* SorosChatbot.get_random_quote
get_random_quote ==
    /\ pc[Engine] = "idle"
    /\ \E drawn \in RandomChoice(soros_quotes[Engine]) :
         answer' = IF drawn.raised
                   THEN [name |-> "random_quote", arg |-> <<>>, outcome |-> "raised",
                         value |-> drawn.error]
                   ELSE [name |-> "random_quote", arg |-> <<>>, outcome |-> "returned",
                         value |-> drawn.value]
    /\ UNCHANGED <<storeVars, chatVars, chunkVars, ingestVars>>

\* a call of generate_context_prompt: it searches, draws a quote and builds
\* the prompt; the draw raises on an empty quote list
context_prompt(user_query) ==
    /\ pc[Engine] = "idle"
    /\ calls < MaxCalls
    /\ calls' = calls + 1
    /\ \E drawn \in RandomChoice(soros_quotes[Engine]) :
         answer' = IF drawn.raised
                   THEN [name |-> "context", arg |-> user_query, outcome |-> "raised",
                         value |-> drawn.error]
                   ELSE [name |-> "context", arg |-> user_query, outcome |-> "returned",
                         value |-> generate_context_prompt(Engine, user_query, drawn.value)]
    /\ UNCHANGED <<pc, op, save_result, soros_concepts, soros_quotes, file, starts, faults,
                   chatVars, chunkVars, ingestVars>>

(***************************************************************************)
(* The conversation engine.                                                *)
(***************************************************************************)
SystemMessage(content) == [role |-> "system", content |-> content]
HumanMessage(content) == [role |-> "user", content |-> content]
AIMessage(content) == [role |-> "assistant", content |-> content]

\* a fallback that leaves the message out
Fallback_NoMessage(message) ==
    <<"I apologize, but I'm experiencing some difficulties. ... Let me try to address your question: ">>

\* the string chat returns from its except branch
Fallback(message) ==
    <<"I apologize, but I'm experiencing some difficulties. ... Let me try to address your question: ">>
    \o message

\* an outbound list that leaves the history out
OutboundMessages_NoHistory(history, user_content) ==
    <<SystemMessage(system_prompt), HumanMessage(user_content)>>

\* the list chat hands to self.llm
OutboundMessages(history, user_content) ==
    <<SystemMessage(system_prompt)>> \o history \o <<HumanMessage(user_content)>>

\* a save that records the reply alone
SavedToMemory_ReplyOnly(history, user_content, reply) ==
    history \o <<AIMessage(reply)>>

\* the transcript after add_user_message and add_ai_message
SavedToMemory(history, user_content, reply) ==
    history \o <<HumanMessage(user_content), AIMessage(reply)>>

\* an except branch that records the user turn alone
AfterChatError_UserTurn(history, user_content, message) ==
    Append(history, HumanMessage(user_content))

\* an except branch that records the user turn and the fallback
AfterChatError_Recording(history, user_content, message) ==
    history \o <<HumanMessage(user_content), AIMessage(Fallback(message))>>

\* the transcript after the except branch of chat
AfterChatError(history, user_content, message) == history

ChatCall(message, use_context, outcome) ==
    [name |-> "chat", message |-> message, use_context |-> use_context,
     outcome |-> outcome, before |-> transcript]

\* chat, when building the context prompt raises (random.choice of an empty list)
ChatContextError(message) ==
    /\ soros_quotes[Engine] = <<>>
    /\ ret' = Fallback(message)
    /\ last' = ChatCall(message, TRUE, "context_error")
    /\ UNCHANGED <<transcript, outbound>>

\* chat from the call of self.llm on
ChatSend(message, use_context, user_content) ==
    /\ outbound' = OutboundMessages(transcript, user_content)
    /\ \/ \E reply \in Replies :
            /\ transcript' = SavedToMemory(transcript, user_content, reply)
            /\ ret' = reply
            /\ last' = ChatCall(message, use_context, "ok")
       \/ /\ transcript' = AfterChatError(transcript, user_content, message)
          /\ ret' = Fallback(message)
          /\ last' = ChatCall(message, use_context, "llm_error")

\* chat
chat(message, use_context) ==
    /\ pc[Engine] = "idle"
    /\ calls < MaxCalls
    /\ calls' = calls + 1
    /\ IF use_context
       THEN \/ ChatContextError(message)
            \/ \E k \in 1..Len(soros_quotes[Engine]) :
                 ChatSend(message, TRUE,
                          generate_context_prompt(Engine, message, soros_quotes[Engine][k]))
       ELSE ChatSend(message, FALSE, message)
    /\ UNCHANGED <<system_prompt, pc, op, save_result, soros_concepts, soros_quotes,
                   file, starts, faults, chunkVars, ingestVars, answer>>

\* a clear that also forgets the loaded PDFs
clear_memory_Everything ==
    /\ pc[Engine] = "idle"
    /\ transcript' = <<>>
    /\ loaded_pdfs' = <<>>
    /\ last' = [NoCall EXCEPT !.name = "clear", !.before = transcript]
    /\ UNCHANGED <<system_prompt, outbound, ret, storeVars, chunkVars, pending, load, answer>>

\* clear_memory
clear_memory ==
    /\ pc[Engine] = "idle"
    /\ transcript' = <<>>
    /\ last' = [NoCall EXCEPT !.name = "clear", !.before = transcript]
    /\ UNCHANGED <<system_prompt, outbound, ret, storeVars, chunkVars, ingestVars, answer>>

(***************************************************************************)
(* The chunker.  A text is here a sequence of numbers: 0 is a whitespace   *)
(* character, a positive number is a word (a run without whitespace).      *)
(***************************************************************************)
DefaultChunkSize == 1000
DefaultOverlap == 200

\* str.split()
Split(t) == SelectSeq(t, LAMBDA x : x # 0)

\* ' '.join(words)
Join(ws) ==
    [i \in 1..(IF ws = <<>> THEN 0 ELSE 2 * Len(ws) - 1) |->
        IF i % 2 = 1 THEN ws[(i + 1) \div 2] ELSE 0]

\* chunk.strip() is not empty
StripNonEmpty(chunk) == \E i \in 1..Len(chunk) : chunk[i] # 0

\* a range that leaves out a last partial step
Range0_WholeSteps(stop, step) ==
    IF step > 0
    THEN [k \in 1..(stop \div step) |-> (k - 1) * step]
    ELSE <<>>

\* the values of range(0, stop, step), step # 0
Range0(stop, step) ==
    IF step > 0
    THEN [k \in 1..((stop + step - 1) \div step) |-> (k - 1) * step]
    ELSE <<>>

\* a window that is one word short
Slice_OneShort(ws, i, size) ==
    SubSeq(ws, i + 1, IF i + size - 1 < Len(ws) THEN i + size - 1 ELSE Len(ws))

\* words[i:i + size]
Slice(ws, i, size) ==
    SubSeq(ws, i + 1, IF i + size < Len(ws) THEN i + size ELSE Len(ws))

\* a chunker that stops once a window reached the end of the words
split_into_chunks_StopAtEnd(t, size, ov) ==
    LET words == Split(t)
        starts_ == Range0(Len(words), size - ov)
        needed == SelectSeq(starts_, LAMBDA i : i = 0 \/ i + ov < Len(words))
        windows == [k \in 1..Len(needed) |-> Join(Slice(words, needed[k], size))]
    IN  SelectSeq(windows, StripNonEmpty)

\* split_into_chunks, for chunk_size # overlap
split_into_chunks(t, size, ov) ==
    LET words == Split(t)
        starts_ == Range0(Len(words), size - ov)
        windows == [k \in 1..Len(starts_) |-> Join(Slice(words, starts_[k], size))]
    IN  SelectSeq(windows, StripNonEmpty)

\* the text of n words, gap whitespace characters between two words and
\* gap - 1 before the first and after the last
MakeText(n, gap) ==
    LET unit == gap + 1
        body == [i \in 1..(n * unit) |-> IF i % unit = 0 THEN i \div unit ELSE 0]
    IN  SubSeq(body, 2, Len(body)) \o [i \in 1..(gap - 1) |-> 0]

ChunkInputs ==
    { <<n, gap, size, ov>> : n \in 0..MaxWords, gap \in 1..2,
                              size \in 1..MaxChunkSize, ov \in 0..(MaxChunkSize + 1) }
    \cup { <<n, 1, DefaultChunkSize, DefaultOverlap>> :
             n \in {DefaultChunkSize, 2 * DefaultChunkSize - DefaultOverlap,
                    2 * DefaultChunkSize} }

\* a call of split_into_chunks: range() raises ValueError on a step of 0
SplitCall ==
    /\ cpc = "input"
    /\ IF chunk_size - overlap = 0
       THEN /\ cpc' = "raised"
            /\ chunks' = <<>>
       ELSE /\ cpc' = "returned"
            /\ chunks' = split_into_chunks(text, chunk_size, overlap)
    /\ UNCHANGED <<text, chunk_size, overlap, reader, storeVars, chatVars, ingestVars, answer>>

(***************************************************************************)
(* The PDF reader: the three extraction strategies, clean_text and         *)
(* read_pdf.  A PDF file is given by what each library yields on it: the   *)
(* texts of its pages, or an exception.                                    *)
(***************************************************************************)
Digits == {"0","1","2","3","4","5","6","7","8","9"}

\* the class \s
IsSpace(c) == c \in {" ", "\n", "\t"}

Failed == [ok |-> FALSE, pages |-> <<>>]
Pages(ps) == [ok |-> TRUE, pages |-> ps]

\* extract_text_pymupdf: page.get_text() + "\n" for every page, "" on an exception
extract_text_pymupdf(pdf) ==
    IF ~pdf.pymupdf.ok THEN <<>>
    ELSE Concat([i \in 1..Len(pdf.pymupdf.pages) |-> pdf.pymupdf.pages[i] \o <<"\n">>])

\* extract_text_pdfplumber: a page without text is skipped
extract_text_pdfplumber(pdf) ==
    IF ~pdf.pdfplumber.ok THEN <<>>
    ELSE Concat([i \in 1..Len(pdf.pdfplumber.pages) |->
                   IF pdf.pdfplumber.pages[i] # <<>>
                   THEN pdf.pdfplumber.pages[i] \o <<"\n">>
                   ELSE <<>>])

\* extract_text_pypdf2
extract_text_pypdf2(pdf) ==
    IF ~pdf.pypdf2.ok THEN <<>>
    ELSE Concat([i \in 1..Len(pdf.pypdf2.pages) |-> pdf.pypdf2.pages[i] \o <<"\n">>])

\* a comparison in which a text as long as the best one replaces it
Longer_OrAsLong(best_text, t) == IF Len(t) >= Len(best_text) THEN t ELSE best_text

\* the comparison of extract_text_combined: a longer text replaces the best one
Longer(best_text, t) == IF Len(t) > Len(best_text) THEN t ELSE best_text

\* extract_text_combined
extract_text_combined(pdf) ==
    Longer(Longer(Longer(<<>>, extract_text_pymupdf(pdf)),
                  extract_text_pdfplumber(pdf)),
           extract_text_pypdf2(pdf))

\* re.sub(r'\s+', ' ', text)
CollapseSpace(t) ==
    LET kept == SelectSeq([i \in 1..Len(t) |-> i],
                          LAMBDA i : ~IsSpace(t[i]) \/ i = 1 \/ ~IsSpace(t[i - 1]))
    IN  [k \in 1..Len(kept) |-> IF IsSpace(t[kept[k]]) THEN " " ELSE t[kept[k]]] \o <<>>

\* re.sub(r'^\d+\s*$', '', text, flags=re.MULTILINE) on a text without newlines
RemovePageNumber(t) ==
    IF /\ t # <<>>
       /\ t[1] \in Digits
       /\ \A i \in 1..Len(t) : t[i] \in Digits \/ IsSpace(t[i])
       /\ \A i \in 1..(Len(t) - 1) : IsSpace(t[i]) => IsSpace(t[i + 1])
    THEN <<>>
    ELSE t

\* re.sub(r'[^\w\s\.\,\!\?\;\:\-\(\)\[\]\{\}\"\']', '', text)
RemoveArtifacts(t) ==
    LET IsWordChar(c) ==
            \/ \E i \in 1..26 : c = UpperCase[i] \/ c = LowerCase[i]
            \/ c \in Digits
            \/ c = "_"
        KeptPunctuation ==
            {".", ",", "!", "?", ";", ":", "-", "(", ")", "[", "]", "{", "}", "\"", "'"}
    IN  SelectSeq(t, LAMBDA c : IsWordChar(c) \/ IsSpace(c) \/ c \in KeptPunctuation)

\* str.replace(old, new) for one-character strings
Replace(t, old, new) == [i \in 1..Len(t) |-> IF t[i] = old THEN new ELSE t[i]] \o <<>>

\* str.strip()
Strip(t) ==
    IF \A i \in 1..Len(t) : IsSpace(t[i]) THEN <<>>
    ELSE LET first == CHOOSE i \in 1..Len(t) :
                         ~IsSpace(t[i]) /\ \A j \in 1..(i - 1) : IsSpace(t[j])
             last_ == CHOOSE i \in 1..Len(t) :
                         ~IsSpace(t[i]) /\ \A j \in (i + 1)..Len(t) : IsSpace(t[j])
         IN  SubSeq(t, first, last_)

\* clean_text
clean_text(t) ==
    Strip(Replace(Replace(RemoveArtifacts(RemovePageNumber(CollapseSpace(t))),
                          "|", "I"),
                  "0", "O"))

\* str.split(): the maximal runs without whitespace
SplitWords(t) ==
    LET starts_ == SelectSeq([i \in 1..Len(t) |-> i],
                             LAMBDA i : ~IsSpace(t[i]) /\ (i = 1 \/ IsSpace(t[i - 1])))
        ends == SelectSeq([i \in 1..Len(t) |-> i],
                          LAMBDA i : ~IsSpace(t[i]) /\ (i = Len(t) \/ IsSpace(t[i + 1])))
    IN  [k \in 1..Len(starts_) |-> SubSeq(t, starts_[k], ends[k])] \o <<>>

\* ' '.join(words) on texts
JoinWords(ws) ==
    Concat([k \in 1..Len(ws) |-> IF k = 1 THEN ws[k] ELSE <<" ">> \o ws[k]])

\* split_into_chunks(cleaned_text), as read_pdf calls it
ChunksOf(cleaned_text) ==
    LET words == SplitWords(cleaned_text)
        starts_ == Range0(Len(words), DefaultChunkSize - DefaultOverlap)
        windows == [k \in 1..Len(starts_) |->
                       JoinWords(Slice(words, starts_[k], DefaultChunkSize))]
    IN  SelectSeq(windows, LAMBDA c : Strip(c) # <<>>)

\* extract_metadata: the page count PyPDF2 reports, {} on an exception
extract_metadata(pdf) ==
    IF pdf.pypdf2.ok THEN << <<"pages", Len(pdf.pypdf2.pages)>> >> ELSE <<>>

\* read_pdf
read_pdf(pdf) ==
    IF pdf.kind = "not_a_path"
    THEN Raised(<<"stat: path should be string, bytes, os.PathLike or integer, not NoneType">>)
    ELSE IF pdf.kind = "missing" THEN Raised(<<"PDF file not found: ">> \o pdf.path)
    ELSE LET raw_text == extract_text_combined(pdf)
             cleaned_text == clean_text(raw_text)
             chunks_ == ChunksOf(cleaned_text)
         IN  Returned([file_path |-> pdf.path,
                       raw_text |-> raw_text,
                       cleaned_text |-> cleaned_text,
                       metadata |-> extract_metadata(pdf),
                       chunks |-> chunks_,
                       total_chunks |-> Len(chunks_),
                       word_count |-> Len(SplitWords(cleaned_text))])

\* read_pdf on a file that exists: raw_text = extract_text_combined(pdf_path)
read_pdf_extract ==
    /\ reader.rpc = "input"
    /\ reader' = [reader EXCEPT !.rpc = "extracted",
                                !.raw_text = extract_text_combined(reader.pdf)]
    /\ UNCHANGED <<text, chunk_size, overlap, chunks, cpc,
                   storeVars, chatVars, ingestVars, answer>>

\* read_pdf: cleaned_text = clean_text(raw_text)
read_pdf_clean ==
    /\ reader.rpc = "extracted"
    /\ reader' = [reader EXCEPT !.rpc = "cleaned",
                                !.cleaned_text = clean_text(reader.raw_text)]
    /\ UNCHANGED <<text, chunk_size, overlap, chunks, cpc,
                   storeVars, chatVars, ingestVars, answer>>

(***************************************************************************)
(* extract_from_pdf.                                                       *)
(***************************************************************************)
QuoteMinLen == 20
QuoteLimit == 10

KW_bubble == <<"b","u","b","b","l","e">>
KW_regulation == <<"r","e","g","u","l","a","t","i","o","n">>

soros_keywords ==
    << <<"r","e","f","l","e","x","i","v","i","t","y">>,
       <<"o","p","e","n"," ","s","o","c","i","e","t","y">>,
       <<"m","a","r","k","e","t"," ","f","u","n","d","a","m","e","n","t","a","l","i","s","m">>,
       <<"b","o","o","m","-","b","u","s","t">>,
       KW_bubble,
       KW_regulation,
       <<"d","e","m","o","c","r","a","c","y">>,
       <<"c","a","p","i","t","a","l","i","s","m">>,
       <<"g","l","o","b","a","l","i","z","a","t","i","o","n">>,
       <<"i","n","e","q","u","a","l","i","t","y">> >>

\* the positions of the double quotes of t, in order
QuotePositions(t) == SelectSeq([i \in 1..Len(t) |-> i], LAMBDA i : t[i] = "\"")

RECURSIVE FindQuotes(_, _)
\* re.findall(r'"([^"]{20,})"', t): ps are the double quotes from the scan
\* position on; a match consumes its closing quote, a failed start does not
FindQuotes(t, ps) ==
    IF Len(ps) < 2 THEN <<>>
    ELSE IF ps[2] - ps[1] - 1 >= QuoteMinLen
         THEN <<SubSeq(t, ps[1] + 1, ps[2] - 1)>> \o FindQuotes(t, Tail(Tail(ps)))
         ELSE FindQuotes(t, Tail(ps))

\* quotes[:10]
FirstQuotes(l) == SubSeq(l, 1, IF Len(l) < QuoteLimit THEN Len(l) ELSE QuoteLimit)

\* an extraction that tests the keywords against the text as it is written
extract_from_pdf_CaseSensitive(pdf_text) ==
    [quotes |-> FirstQuotes(FindQuotes(pdf_text, QuotePositions(pdf_text))),
     concepts |-> SelectSeq(soros_keywords, LAMBDA k : InText(k, pdf_text)),
     themes |-> <<>>]

\* extract_from_pdf
extract_from_pdf(pdf_text) ==
    LET text_lower == Lower(pdf_text)
    IN  [quotes |-> FirstQuotes(FindQuotes(pdf_text, QuotePositions(pdf_text))),
         concepts |-> SelectSeq(soros_keywords,
                                LAMBDA k : InText(Lower(k), text_lower)),
         themes |-> <<>>]



(***************************************************************************)
(* The PDF files given to load_pdf.                                        *)
(***************************************************************************)
Q_reflexive == <<"M","a","r","k","e","t","s"," ","a","r","e"," ","r","e","f","l","e","x","i","v","e"," ","a","n","d"," ","u","n","p","r","e","d","i","c","t","a","b","l","e">>
Q_components == <<"E","v","e","r","y"," ","b","u","b","b","l","e"," ","h","a","s"," ","t","w","o"," ","c","o","m","p","o","n","e","n","t","s">>

T_scenario == <<"H","e"," ","s","a","i","d"," ","\"","M","a","r","k","e","t","s"," ","a","r","e"," ","r","e","f","l","e","x","i","v","e"," ","a","n","d"," ","u","n","p","r","e","d","i","c","t","a","b","l","e","\""," ","a","b","o","u","t"," ","r","e","g","u","l","a","t","i","o","n",".">>
T_first_page == <<"S","o","r","o","s"," ","o","n"," ","R","E","G","U","L","A","T","I","O","N",":"," ","\"","M","a","r","k","e","t","s"," ","a","r","e"," ","r","e","f","l","e","x","i","v","e"," ","a","n","d"," ","u","n","p","r","e","d","i","c","t","a","b","l","e","\""," ","2","0","2","0"," ","|"," ","\"","t","o","o"," ","s","h","o","r","t","\""," ","@">>
T_second_page == <<"\"","M","a","r","k","e","t","s"," ","a","r","e"," ","r","e","f","l","e","x","i","v","e"," ","a","n","d"," ","u","n","p","r","e","d","i","c","t","a","b","l","e","\""," ","a","n","d"," ","\"","E","v","e","r","y"," ","b","u","b","b","l","e"," ","h","a","s"," ","t","w","o"," ","c","o","m","p","o","n","e","n","t","s","\""," ","i","s"," ","w","h","a","t"," ","h","e"," ","s","a","i","d"," ","o","f"," ","a"," ","B","U","B","B","L","E"," ","\"">>

\* QuoteLimit + 1 quoted segments, each of QuoteMinLen characters or more
T_many ==
    LET ManyQuote(i) == [j \in 1..(QuoteMinLen + i - 1) |-> LowerCase[i]]
    IN  Concat([i \in 1..(QuoteLimit + 1) |-> <<"\"">> \o ManyQuote(i) \o <<"\"", " ">>])

PdfFile(path, pymupdf, pdfplumber, pypdf2) ==
    [path |-> path, kind |-> "file",
     pymupdf |-> pymupdf, pdfplumber |-> pdfplumber, pypdf2 |-> pypdf2]

\* a path without a file
PDF_missing ==
    [path |-> <<"missing.pdf">>, kind |-> "missing",
     pymupdf |-> Failed, pdfplumber |-> Failed, pypdf2 |-> Failed]
\* None handed to load_pdf: os.path.exists raises TypeError
PDF_not_a_path ==
    [path |-> <<>>, kind |-> "not_a_path",
     pymupdf |-> Failed, pdfplumber |-> Failed, pypdf2 |-> Failed]
\* a file no library can open
PDF_unreadable == PdfFile(<<"unreadable.pdf">>, Failed, Failed, Failed)
PDF_scenario ==
    PdfFile(<<"scenario.pdf">>, Pages(<<T_scenario>>), Pages(<<T_scenario>>), Failed)
PDF_two_pages ==
    PdfFile(<<"two_pages.pdf">>, Failed, Pages(<<T_first_page, <<>>, T_second_page>>),
            Pages(<<T_first_page>>))
PDF_many == PdfFile(<<"many.pdf">>, Pages(<<T_many>>), Failed, Failed)

PdfInputs ==
    {PDF_missing, PDF_not_a_path, PDF_unreadable, PDF_scenario, PDF_two_pages, PDF_many}

\* Config.MAX_PDF_SIZE_MB, by default
MAX_PDF_SIZE_MB == 50

\* the files sent to /upload-pdf: the name the client gives, the size of the
\* content in MB, and what the PDF libraries make of the content
Uploads ==
    LET Upload(filename, size_mb) ==
            [filename |-> filename, size_mb |-> size_mb, content |-> PDF_scenario]
        notes_txt == <<"n","o","t","e","s",".","t","x","t">>
        paper_pdf_bak == <<"p","a","p","e","r",".","p","d","f",".","b","a","k">>
        Report_PDF == <<"R","e","p","o","r","t",".","P","D","F">>
        big_pdf == <<"b","i","g",".","p","d","f">>
    IN  { Upload(notes_txt, 1), Upload(paper_pdf_bak, 1), Upload(Report_PDF, 1),
          Upload(big_pdf, MAX_PDF_SIZE_MB + 1) }

\* the temporary file holding the content of an upload, under a fresh name
TempFile(u) == [u.content EXCEPT !.path = <<"tmp.pdf">>]

\* the files load_pdf is called with
Files == PdfInputs \cup {TempFile(u) : u \in Uploads}

(***************************************************************************)
(* load_pdf.  Its loop over the extracted quotes calls add_quote, and so   *)
(* save_knowledge_base, once for every quote.                              *)
(***************************************************************************)
LoadCall(outcome, pdf, result) ==
    [outcome |-> outcome, path |-> pdf.path, result |-> result,
     quotes_before |-> soros_quotes[Engine], pdfs_before |-> loaded_pdfs,
     successes |-> load.successes]

\* an except branch that files a record of the failed load
LoadFailed_Recording(pdf, error) ==
    /\ load' = LoadCall("returned", pdf, [NoResult EXCEPT !.error = error])
    /\ loaded_pdfs' = Append(loaded_pdfs, [path |-> pdf.path, data |-> <<>>, extracted |-> <<>>])
    /\ UNCHANGED <<pending, pc>>

\* a load_pdf that lets the exception of read_pdf through
LoadFailed_Raising(pdf, error) ==
    /\ load' = LoadCall("raised", pdf, NoResult)
    /\ UNCHANGED <<loaded_pdfs, pending, pc>>

\* the except branch of load_pdf
LoadFailed(pdf, error) ==
    /\ load' = LoadCall("returned", pdf, [NoResult EXCEPT !.error = error])
    /\ UNCHANGED <<loaded_pdfs, pending, pc>>

\* read_pdf on each of the files, computed once (f @@ << >> is f)
ReadPdf == [pdf \in Files |-> read_pdf(pdf)] @@ << >>

\* extract_from_pdf on the cleaned text of each file read_pdf returns for
ExtractFromPdf ==
    [pdf \in {p \in Files : ~ReadPdf[p].raised} |->
        extract_from_pdf(ReadPdf[pdf].value.cleaned_text)] @@ << >>

\* load_pdf up to its loop over the extracted quotes
load_pdf(pdf) ==
    /\ pc[Engine] = "idle"
    /\ calls < MaxCalls
    /\ calls' = calls + 1
    /\ LET read == ReadPdf[pdf]
       IN  IF read.raised
           THEN LoadFailed(pdf, read.error)
           ELSE LET pdf_data == read.value
                    extracted_content == ExtractFromPdf[pdf]
                IN  /\ loaded_pdfs' = Append(loaded_pdfs, [path |-> pdf.path, data |-> pdf_data,
                                                extracted |-> extracted_content])
                    /\ pending' = extracted_content.quotes
                    /\ pc' = [pc EXCEPT ![Engine] = "ingesting"]
                    /\ load' = LoadCall("running", pdf,
                                        [success |-> TRUE, error |-> <<>>,
                                         pdf_data |-> pdf_data,
                                         extracted_content |-> extracted_content])
    /\ UNCHANGED <<op, save_result, soros_concepts, soros_quotes, file, starts, faults,
                   chatVars, chunkVars, answer>>

\* one round of the loop of load_pdf: self.knowledge_base.add_quote(quote)
load_pdf_add_quote ==
    /\ pc[Engine] = "ingesting"
    /\ pending # <<>>
    /\ pending' = Tail(pending)
    /\ AddQuote(Engine, Head(pending))
    /\ UNCHANGED <<soros_concepts, starts, calls, loaded_pdfs, load,
                   chatVars, chunkVars, answer>>

\* load_pdf returns its success result
load_pdf_return ==
    /\ pc[Engine] = "ingesting"
    /\ pending = <<>>
    /\ pc' = [pc EXCEPT ![Engine] = "idle"]
    /\ op' = [op EXCEPT ![Engine] = CallOp("load_pdf", load.path)]
    /\ load' = [load EXCEPT !.outcome = "returned", !.successes = @ + 1]
    /\ UNCHANGED <<save_result, soros_concepts, soros_quotes, file, starts, faults, calls,
                   loaded_pdfs, pending, chatVars, chunkVars, answer>>

(***************************************************************************)
(* The HTTP API.  chatbot is the module-level engine of api/main.py:       *)
(* "unset" before startup, "starting" while SorosChatbot() runs, "none"    *)
(* when startup failed, "up" when it holds an engine.  Requests are        *)
(* handled one at a time; response is the answer to the last request       *)
(* (endpoint, status code, the success field and the kind of body),        *)
(* written when its handler begins.                                        *)
(***************************************************************************)
Endpoints ==
    {"/", "/health", "/config", "/chat", "/stats", "/pdfs", "/upload-pdf",
     "/search-concepts", "/random-quote", "/add-quote", "/add-concept", "/clear-memory"}

Response(endpoint, status, success, detail) ==
    [endpoint |-> endpoint, status |-> status, success |-> success, detail |-> detail]

\* startup_event up to the end of SorosKnowledgeBase.__init__: Config.validate
\* raises ValueError without a key; creating the data directory may fail
startup_event(key_set, mkdir_ok) ==
    /\ chatbot = "unset"
    /\ pc[Engine] = "down"
    /\ IF ~key_set
       THEN /\ chatbot' = "none"
            /\ response' = Response("startup", 0, FALSE, "Configuration error")
            /\ UNCHANGED <<tmp_files, storeVars, chatVars, chunkVars, ingestVars, answer>>
       ELSE IF ~mkdir_ok
       THEN /\ chatbot' = "none"
            /\ response' = Response("startup", 0, FALSE, "Failed to initialize chatbot")
            /\ UNCHANGED <<tmp_files, storeVars, chatVars, chunkVars, ingestVars, answer>>
       ELSE /\ Construct(Engine)
            /\ chatbot' = "starting"
            /\ UNCHANGED <<response, tmp_files>>

\* the rest of SorosChatbot.__init__ and of startup_event: ChatOpenAI() may
\* raise, and then the engine under construction is dropped
startup_finish(llm_ok) ==
    /\ chatbot = "starting"
    /\ pc[Engine] = "idle"
    /\ IF llm_ok
       THEN /\ chatbot' = "up"
            /\ response' = Response("startup", 0, TRUE, "initialized")
            /\ UNCHANGED <<tmp_files, storeVars, chatVars, chunkVars, ingestVars, answer>>
       ELSE /\ Exit(Engine)
            /\ chatbot' = "none"
            /\ response' = Response("startup", 0, FALSE, "Failed to initialize chatbot")
            /\ UNCHANGED tmp_files

\* the server takes the next request
Ready == chatbot = "none" \/ (chatbot = "up" /\ pc[Engine] = "idle")

\* a handler that touches nothing but the response
Quiet == UNCHANGED <<chatbot, tmp_files, storeVars, chatVars, chunkVars, ingestVars, answer>>

\* if not chatbot: raise HTTPException(status_code=503, ...)
Unavailable(endpoint) ==
    /\ response' = Response(endpoint, 503, FALSE, "Chatbot not available")
    /\ Quiet

root ==
    /\ Ready
    /\ response' = Response("/", 200, TRUE, "running")
    /\ Quiet

health_check ==
    /\ Ready
    /\ response' = Response("/health", 200, TRUE,
                            IF chatbot = "up" THEN "chatbot available"
                                              ELSE "chatbot not available")
    /\ Quiet

get_config ==
    /\ Ready
    /\ response' = Response("/config", 200, TRUE, "configuration")
    /\ Quiet

\* POST /chat: SorosChatbot.chat raises nothing, so success is always true
api_chat(message, use_context) ==
    /\ Ready
    /\ IF chatbot = "none"
       THEN Unavailable("/chat")
       ELSE /\ chat(message, use_context)
            /\ response' = Response("/chat", 200, TRUE, "response")
            /\ UNCHANGED <<chatbot, tmp_files>>

get_system_stats ==
    /\ Ready
    /\ IF chatbot = "none"
       THEN Unavailable("/stats")
       ELSE /\ response' = Response("/stats", 200, TRUE, "stats")
            /\ Quiet

\* a handler that uses the engine without testing for it
get_loaded_pdfs_Unchecked ==
    /\ Ready
    /\ response' = IF chatbot = "none"
                   THEN Response("/pdfs", 500, FALSE, "Internal Server Error")
                   ELSE Response("/pdfs", 200, TRUE, "pdfs")
    /\ Quiet

get_loaded_pdfs ==
    /\ Ready
    /\ IF chatbot = "none"
       THEN Unavailable("/pdfs")
       ELSE /\ response' = Response("/pdfs", 200, TRUE, "pdfs")
            /\ Quiet

\* a test for .pdf anywhere in the name
IsPdfName_Anywhere(filename) == InText(<<".","p","d","f">>, Lower(filename))

\* file.filename.lower().endswith('.pdf')
IsPdfName(filename) ==
    LET EndsWith(t, suffix) ==
            /\ Len(t) >= Len(suffix)
            /\ SubSeq(t, Len(t) - Len(suffix) + 1, Len(t)) = suffix
    IN  EndsWith(Lower(filename), <<".","p","d","f">>)

\* POST /upload-pdf.  The size of the content is not looked at.  Writing the
\* temporary file may fail, before or after the file exists.
upload_pdf(u) ==
    /\ Ready
    /\ IF chatbot = "none"
       THEN Unavailable("/upload-pdf")
       ELSE IF ~IsPdfName(u.filename)
       THEN /\ response' = Response("/upload-pdf", 400, FALSE, "File must be a PDF")
            /\ Quiet
       ELSE \/ /\ tmp_files' = tmp_files + 1
               /\ load_pdf(TempFile(u))
               /\ response' = Response("/upload-pdf", 200, ~ReadPdf[TempFile(u)].raised,
                                       "processed")
               /\ UNCHANGED chatbot
            \/ /\ faults < MaxFaults
               /\ faults' = faults + 1
               /\ tmp_files' \in {tmp_files, tmp_files + 1}
               /\ response' = Response("/upload-pdf", 200, FALSE, "upload error")
               /\ UNCHANGED <<chatbot, pc, op, save_result, soros_concepts, soros_quotes,
                              file, starts, calls, chatVars, chunkVars, ingestVars, answer>>

\* GET /search-concepts
api_search_concepts(query) ==
    /\ Ready
    /\ IF chatbot = "none"
       THEN Unavailable("/search-concepts")
       ELSE /\ response' = Response("/search-concepts", 200, TRUE,
                                    IF search_concepts(Engine, query) = <<>>
                                    THEN "no results" ELSE "results")
            /\ Quiet

\* GET /random-quote: an exception of the draw becomes success = false
api_get_random_quote ==
    /\ Ready
    /\ IF chatbot = "none"
       THEN Unavailable("/random-quote")
       ELSE /\ \E drawn \in RandomChoice(soros_quotes[Engine]) :
                 response' = Response("/random-quote", 200, ~drawn.raised,
                                      IF drawn.raised THEN "error" ELSE "quote")
            /\ Quiet

\* POST /add-quote
add_custom_quote(quote) ==
    /\ Ready
    /\ IF chatbot = "none"
       THEN Unavailable("/add-quote")
       ELSE /\ add_quote(Engine, quote)
            /\ response' = Response("/add-quote", 200, TRUE, "Quote added successfully")
            /\ UNCHANGED <<chatbot, tmp_files>>

\* key_points.split(',')
RECURSIVE SplitOnComma(_)
SplitOnComma(t) ==
    IF \A i \in 1..Len(t) : t[i] # ","
    THEN <<t>>
    ELSE LET i == CHOOSE j \in 1..Len(t) : t[j] = "," /\ \A k \in 1..(j - 1) : t[k] # ","
         IN  <<SubSeq(t, 1, i - 1)>> \o SplitOnComma(SubSeq(t, i + 1, Len(t)))

\* [point.strip() for point in key_points.split(',') if point.strip()]
ParseKeyPoints(key_points) ==
    LET parts == SplitOnComma(key_points)
        stripped == [i \in 1..Len(parts) |-> Strip(parts[i])] \o <<>>
    IN  SelectSeq(stripped, LAMBDA point : point # <<>>)

\* the form fields sent to /add-concept
F_reflexivity ==
    [concept_name |-> N_reflexivity, definition |-> D_custom,
     key_points |-> <<" ">> \o K_fallibility \o <<" ", ",", ",">>]

\* POST /add-concept
add_custom_concept(form) ==
    /\ Ready
    /\ IF chatbot = "none"
       THEN Unavailable("/add-concept")
       ELSE /\ add_concept(Engine, Entry(form.concept_name, form.definition,
                                         ParseKeyPoints(form.key_points)))
            /\ response' = Response("/add-concept", 200, TRUE, "Concept added successfully")
            /\ UNCHANGED <<chatbot, tmp_files>>

\* DELETE /clear-memory
clear_conversation_memory ==
    /\ Ready
    /\ IF chatbot = "none"
       THEN Unavailable("/clear-memory")
       ELSE /\ clear_memory
            /\ response' = Response("/clear-memory", 200, TRUE, "Memory cleared successfully")
            /\ UNCHANGED <<chatbot, tmp_files>>

(***************************************************************************)
(* Specifications.                                                         *)
(***************************************************************************)
StoreInit ==
    /\ pc = [s \in Stores |-> "down"]
    /\ op = [s \in Stores |-> NoOp]
    /\ save_result = [s \in Stores |-> "none"]
    /\ soros_concepts = [s \in Stores |-> <<>>]
    /\ soros_quotes = [s \in Stores |-> <<>>]
    /\ file = AbsentFile
    /\ starts = 0
    /\ faults = 0
    /\ calls = 0

ChatInit ==
    /\ transcript = <<>>
    /\ system_prompt = <<>>
    /\ outbound = <<>>
    /\ ret = <<>>
    /\ last = NoCall

IngestInit ==
    /\ loaded_pdfs = <<>>
    /\ pending = <<>>
    /\ load = NoLoad

ApiDown ==
    /\ chatbot = "unset"
    /\ response = NoResponse
    /\ tmp_files = 0

NoChunkCall ==
    /\ text = <<>>
    /\ chunk_size = DefaultChunkSize
    /\ overlap = DefaultOverlap
    /\ chunks = <<>>
    /\ cpc = "idle"
    /\ reader = [rpc |-> "idle", pdf |-> <<>>, raw_text |-> <<>>, cleaned_text |-> <<>>]

Init == StoreInit /\ ChatInit /\ IngestInit /\ answer = NoAnswer /\ ApiDown /\ NoChunkCall

\* one process: the engine and its store
Next ==
    \/ Construct(Engine) /\ UNCHANGED apiVars
    \/ Exit(Engine) /\ UNCHANGED apiVars
    \/ SaveDump(Engine) /\ UNCHANGED apiVars
    \/ \E e \in ConceptInputs : add_concept(Engine, e) /\ UNCHANGED apiVars
    \/ \E q \in QuoteInputs : add_quote(Engine, q) /\ UNCHANGED apiVars
    \/ \E m \in Messages, uc \in BOOLEAN : chat(m, uc) /\ UNCHANGED apiVars
    \/ clear_memory /\ UNCHANGED apiVars

Spec == Init /\ [][Next]_vars

\* two processes, each with a store on the same snapshot file
StoresNext ==
    \E s \in Stores :
        \/ Construct(s) /\ UNCHANGED apiVars
        \/ Exit(s) /\ UNCHANGED apiVars
        \/ SaveDump(s) /\ UNCHANGED apiVars
        \/ \E e \in ConceptInputs : add_concept(s, e) /\ UNCHANGED apiVars
        \/ \E q \in QuoteInputs : add_quote(s, q) /\ UNCHANGED apiVars

SpecStores == Init /\ [][StoresNext]_vars

\* one life of the engine and its store, with the PDF files it is given
EngineNext ==
    \/ Construct(Engine) /\ UNCHANGED apiVars
    \/ SaveDump(Engine) /\ UNCHANGED apiVars
    \/ \E e \in ConceptInputs : add_concept(Engine, e) /\ UNCHANGED apiVars
    \/ \E q \in QuoteInputs : add_quote(Engine, q) /\ UNCHANGED apiVars
    \/ \E m \in Messages : chat(m, FALSE) /\ UNCHANGED apiVars
    \/ clear_memory /\ UNCHANGED apiVars
    \/ \E pdf \in PdfInputs : load_pdf(pdf) /\ UNCHANGED apiVars
    \/ load_pdf_add_quote /\ UNCHANGED apiVars
    \/ load_pdf_return /\ UNCHANGED apiVars

SpecEngine == Init /\ [][EngineNext]_vars

\* one life of the engine and its store, with the read-only calls
QueryNext ==
    \/ Construct(Engine) /\ UNCHANGED apiVars
    \/ SaveDump(Engine) /\ UNCHANGED apiVars
    \/ \E e \in ConceptInputs : add_concept(Engine, e) /\ UNCHANGED apiVars
    \/ \E q \in QuoteInputs : add_quote(Engine, q) /\ UNCHANGED apiVars
    \/ \E query \in Queries : search_knowledge_base(query) /\ UNCHANGED apiVars
    \/ get_random_quote /\ UNCHANGED apiVars

SpecQuery == Init /\ [][QueryNext]_vars

\* one life of the store, with the building of context prompts for a message
\* in capitals, the empty message and a message nothing matches
SpecContext ==
    Init /\ [][\/ Construct(Engine) /\ UNCHANGED apiVars
               \/ SaveDump(Engine) /\ UNCHANGED apiVars
               \/ \E e \in ConceptInputs : add_concept(Engine, e) /\ UNCHANGED apiVars
               \/ \E q \in QuoteInputs : add_quote(Engine, q) /\ UNCHANGED apiVars
               \/ \E message \in {M_market, <<>>, <<"z","z","z">>} :
                     context_prompt(message) /\ UNCHANGED apiVars]_vars

\* the API server from startup on
ApiNext ==
    \/ \E key_set, mkdir_ok \in BOOLEAN : startup_event(key_set, mkdir_ok)
    \/ \E llm_ok \in BOOLEAN : startup_finish(llm_ok)
    \/ SaveDump(Engine) /\ UNCHANGED apiVars
    \/ root
    \/ health_check
    \/ get_config
    \/ \E m \in Messages : api_chat(m, FALSE)
    \/ get_system_stats
    \/ get_loaded_pdfs
    \/ \E u \in Uploads : upload_pdf(u)
    \/ load_pdf_add_quote /\ UNCHANGED apiVars
    \/ load_pdf_return /\ UNCHANGED apiVars
    \/ \E query \in {QY_MARKET, <<>>} : api_search_concepts(query)
    \/ api_get_random_quote
    \/ add_custom_quote(Q_custom)
    \/ add_custom_concept(F_reflexivity)
    \/ clear_conversation_memory

SpecApi == Init /\ [][ApiNext]_vars

\* the chunker alone, on each input
ChunkInit ==
    /\ StoreInit
    /\ ChatInit
    /\ IngestInit
    /\ answer = NoAnswer
    /\ ApiDown
    /\ \E in \in ChunkInputs :
        /\ text = MakeText(in[1], in[2])
        /\ chunk_size = in[3]
        /\ overlap = in[4]
    /\ chunks = <<>>
    /\ cpc = "input"
    /\ reader = [rpc |-> "idle", pdf |-> <<>>, raw_text |-> <<>>, cleaned_text |-> <<>>]

SpecChunk == ChunkInit /\ [][SplitCall /\ UNCHANGED apiVars]_vars

\* the reader alone, on files of which each library makes one of six things:
\* an exception, a page, another page as long, a page with a line that is a
\* number, a page that is a number, a page followed by a page without text
ReaderInit ==
    LET Intro == <<"I","n","t","r","o">>
        Outro == <<"O","u","t","r","o">>
        Numbered == Intro \o <<"\n","1","2","\n">> \o <<"M","o","r","e">>
        Outcomes == { Failed, Pages(<<Intro>>), Pages(<<Outro>>), Pages(<<Numbered>>),
                      Pages(<< <<"1","2">> >>), Pages(<<Intro, <<>> >>) }
    IN  /\ StoreInit
        /\ ChatInit
        /\ IngestInit
        /\ answer = NoAnswer
        /\ ApiDown
        /\ text = <<>>
        /\ chunk_size = DefaultChunkSize
        /\ overlap = DefaultOverlap
        /\ chunks = <<>>
        /\ cpc = "idle"
        /\ \E pymupdf \in Outcomes, pdfplumber \in Outcomes, pypdf2 \in Outcomes :
              reader = [rpc |-> "input",
                        pdf |-> PdfFile(<<"in.pdf">>, pymupdf, pdfplumber, pypdf2),
                        raw_text |-> <<>>, cleaned_text |-> <<>>]

SpecReader ==
    ReaderInit /\ [][\/ read_pdf_extract /\ UNCHANGED apiVars
                     \/ read_pdf_clean /\ UNCHANGED apiVars]_vars

(***************************************************************************)
(* Claims about chat.                                                      *)
(***************************************************************************)
ChatFailed == last.name = "chat" /\ last.outcome \in {"llm_error", "context_error"}
ChatSucceeded == last.name = "chat" /\ last.outcome = "ok"
ChatSent == last.name = "chat" /\ last.outcome \in {"ok", "llm_error"}

ApologyToken ==
    "I apologize, but I'm experiencing some difficulties. ... Let me try to address your question: "

\* t is message behind a non-empty prefix
Embeds(t, message) ==
    /\ Len(t) > Len(message)
    /\ SubSeq(t, Len(t) - Len(message) + 1, Len(t)) = message

\* C1 as stated: after a chat whose completion call raised, the transcript
\* holds two more turns than before, a user turn and an assistant turn with
\* the fallback string.
C1_FailedChatRecordsTwoTurns ==
    (last.name = "chat" /\ last.outcome = "llm_error") =>
        /\ Len(transcript) = Len(last.before) + 2
        /\ SubSeq(transcript, 1, Len(last.before)) = last.before
        /\ transcript[Len(transcript) - 1].role = "user"
        /\ transcript[Len(transcript)].role = "assistant"
        /\ transcript[Len(transcript)].content = ret

\* C1 amended: after a chat whose completion call raised, the transcript is
\* the transcript before the call (no turn is recorded) and the fallback
\* string is returned.
C1_FailedChatLeavesTranscript ==
    (last.name = "chat" /\ last.outcome = "llm_error") =>
        /\ transcript = last.before
        /\ ret[1] = ApologyToken

C1_Witness ==
    /\ last.name = "chat"
    /\ last.outcome = "llm_error"
    /\ Len(last.before) >= 2
    /\ outbound[Len(outbound)].role = "user"

\* C2: chat always returns; when the completion call or the context building
\* fails, for either value of use_context, the returned value is the fixed
\* apology followed by the original message, verbatim.
C2_FailedChatReturnsFallback ==
    /\ last.name = "chat" => last.outcome \in {"ok", "llm_error", "context_error"}
    /\ ChatFailed =>
        /\ Len(ret) = 1 + Len(last.message)
        /\ ret[1] = ApologyToken
        /\ SubSeq(ret, 2, Len(ret)) = last.message
    /\ ChatSucceeded => ret \in Replies

C2_Witness ==
    /\ ChatFailed
    /\ last.use_context
    /\ last.message = M_market
    /\ ret = <<ApologyToken>> \o M_market

\* C3: after a successful chat the transcript is the transcript before the
\* call followed by a user turn and an assistant turn holding the reply; the
\* user turn's content is the last entry of the outbound sequence, the
\* augmented string when use_context is true and the raw message otherwise.
C3_SuccessfulChatAppendsTwoTurns ==
    ChatSucceeded =>
        LET n == Len(last.before)
        IN  /\ Len(transcript) = n + 2
            /\ SubSeq(transcript, 1, n) = last.before
            /\ transcript[n + 1].role = "user"
            /\ transcript[n + 2] = AIMessage(ret)
            /\ transcript[n + 1].content = outbound[Len(outbound)].content
            /\ IF last.use_context
               THEN Embeds(transcript[n + 1].content, last.message)
               ELSE transcript[n + 1].content = last.message

C3_Witness ==
    /\ ChatSucceeded
    /\ last.use_context
    /\ Len(last.before) >= 2
    /\ transcript[Len(transcript) - 1].content # last.message

\* C4: the sequence handed to the completion service is the system persona
\* message, then the turns of the transcript before the call in their order,
\* then one user turn; its length is the transcript's length plus 2.
C4_OutboundSequence ==
    ChatSent =>
        LET n == Len(last.before)
        IN  /\ Len(outbound) = n + 2
            /\ outbound[1] = SystemMessage(system_prompt)
            /\ SubSeq(outbound, 2, n + 1) = last.before
            /\ outbound[n + 2].role = "user"
            /\ IF last.use_context
               THEN Embeds(outbound[n + 2].content, last.message)
               ELSE outbound[n + 2].content = last.message

C4_Witness ==
    /\ ChatSent
    /\ Len(last.before) >= 2
    /\ Len(outbound) = Len(last.before) + 2

(***************************************************************************)
(* Claims about split_into_chunks.                                         *)
(***************************************************************************)
Words == Split(text)

\* the smallest k with k * d >= n
CeilDiv(n, d) == (n + d - 1) \div d

\* the last n elements of l
LastOf(l, n) == SubSeq(l, Len(l) - n + 1, Len(l))

\* C5 as stated: a text of exactly chunk_size words, overlap < chunk_size,
\* yields exactly one chunk, the whole text joined by single spaces.
C5_ExactSizeGivesOneChunk ==
    (cpc = "returned" /\ Len(Words) = chunk_size /\ overlap < chunk_size) =>
        chunks = <<Join(Words)>>

\* C5 amended: a text of exactly chunk_size words, overlap < chunk_size,
\* yields ceil(chunk_size / (chunk_size - overlap)) chunks: the first is the
\* whole text joined by single spaces and chunk k + 1 is its tail from word
\* k * (chunk_size - overlap) on; this is one chunk only when overlap = 0,
\* and two chunks with the defaults 1000/200, the second being the last 200
\* words.
C5_ExactSizeGivesWholeTextThenTails ==
    (cpc = "returned" /\ Len(Words) = chunk_size /\ overlap < chunk_size) =>
        LET step == chunk_size - overlap
        IN  /\ Len(chunks) = CeilDiv(chunk_size, step)
            /\ chunks[1] = Join(Words)
            /\ \A k \in 2..Len(chunks) :
                 chunks[k] = Join(LastOf(Words, chunk_size - (k - 1) * step))
            /\ (Len(chunks) = 1) <=> (overlap = 0)
            /\ (chunk_size = DefaultChunkSize /\ overlap = DefaultOverlap) =>
                 chunks = <<Join(Words), Join(LastOf(Words, DefaultOverlap))>>

C5_Witness ==
    /\ cpc = "returned"
    /\ chunk_size = DefaultChunkSize
    /\ overlap = DefaultOverlap
    /\ Len(Words) = DefaultChunkSize
    /\ Len(chunks) = 2

\* C6 as stated: with the defaults, a text of 2 * chunk_size - overlap words
\* yields exactly two chunks, the last overlap words of the first being the
\* first overlap words of the second.
C6_TwoWindowsGiveTwoChunks ==
    (/\ cpc = "returned"
     /\ chunk_size = DefaultChunkSize
     /\ overlap = DefaultOverlap
     /\ Len(Words) = 2 * chunk_size - overlap) =>
        /\ Len(chunks) = 2
        /\ LastOf(Split(chunks[1]), overlap) = SubSeq(Split(chunks[2]), 1, overlap)

\* C6 amended: with the defaults, a text of 2 * chunk_size - overlap words
\* yields exactly three chunks: two of chunk_size words, the last overlap
\* words of the first being the first overlap words of the second, and a
\* third holding the last overlap words of the text.
C6_TwoWindowsGiveThreeChunks ==
    (/\ cpc = "returned"
     /\ chunk_size = DefaultChunkSize
     /\ overlap = DefaultOverlap
     /\ Len(Words) = 2 * chunk_size - overlap) =>
        /\ Len(chunks) = 3
        /\ Len(Split(chunks[1])) = chunk_size
        /\ Len(Split(chunks[2])) = chunk_size
        /\ LastOf(Split(chunks[1]), overlap) = SubSeq(Split(chunks[2]), 1, overlap)
        /\ chunks[3] = Join(LastOf(Words, overlap))
        /\ Split(chunks[3]) = LastOf(Split(chunks[2]), overlap)

C6_Witness ==
    /\ cpc = "returned"
    /\ chunk_size = DefaultChunkSize
    /\ overlap = DefaultOverlap
    /\ Len(Words) = 2 * DefaultChunkSize - DefaultOverlap
    /\ Len(chunks) = 3

(***************************************************************************)
(* Claims about the knowledge store and its snapshot file.                 *)
(***************************************************************************)
\* the file is a document holding exactly the fields of store s
FileHolds(f, s) ==
    /\ f.kind = "json"
    /\ Len(f.doc) = 3
    /\ ConceptsFromJson(f.doc) = soros_concepts[s]
    /\ QuotesFromJson(f.doc) = soros_quotes[s]
    /\ JsonGet(f.doc, "writing_style", <<>>) = StyleToJson(WritingStyle)

MutatingOps == {"init", "add_concept", "add_quote"}

\* C7 as stated: a store constructed from a snapshot file a store wrote has
\* the concept mapping and the quote collection of that file, the quotes in
\* the same order, none added, dropped or reordered (stated for the runs in
\* which no file operation failed).
C7_RoundTrip ==
    [][\A s \in Stores :
          (pc[s] = "down" /\ pc'[s] # "down" /\ file.kind = "json" /\ faults' = 0) =>
             /\ soros_concepts'[s] = ConceptsFromJson(file.doc)
             /\ soros_quotes'[s] = QuotesFromJson(file.doc)]_vars

C9_AddQuoteIdempotent ==
    [][\A q \in QuoteInputs :
          add_quote(Engine, q) =>
             /\ InList(q, soros_quotes'[Engine])
             /\ InList(q, soros_quotes[Engine]) =>
                   soros_quotes'[Engine] = soros_quotes[Engine]]_vars

C9_Witness ==
    /\ op[Engine].name = "add_quote_present"
    /\ op[Engine].arg \in QuoteInputs
    /\ InList(op[Engine].arg, soros_quotes[Engine])
    /\ pc[Engine] = "idle"

\* C10: nothing orders the writers of the snapshot file: a write that
\* completes leaves in the file exactly what its own store holds, whatever
\* the file held of another writer; so a state is reached in which the file
\* is the snapshot of the writer that finished last and the quote the other
\* writer added is not in it.
C10_LastWriterWins ==
    [][\A s \in Stores :
          (SaveDump(s) /\ save_result'[s] = "ok" /\ file'.kind = "json") =>
             FileHolds(file', s)]_vars

C10_Witness ==
    \E a, b \in Stores :
        /\ a # b
        /\ faults = 0
        /\ pc[a] = "idle" /\ pc[b] = "idle"
        /\ op[a].name = "add_quote" /\ save_result[a] = "ok"
        /\ op[b].name \in {"add_quote", "add_concept"} /\ save_result[b] = "ok"
        /\ InList(op[a].arg, soros_quotes[a])
        /\ FileHolds(file, b)
        /\ ~InList(op[a].arg, QuotesFromJson(file.doc))

(***************************************************************************)
(* Claims about load_pdf.                                                  *)
(***************************************************************************)
\* the files of the given kinds, by the path load_pdf was called with
LoadedInput == CHOOSE pdf \in PdfInputs : pdf.path = load.path

\* load_pdf has returned and no call has changed the store since
LoadJustReturned ==
    /\ load.outcome = "returned"
    /\ pc[Engine] = "idle"
    /\ load.result.success => op[Engine] = CallOp("load_pdf", load.path)

\* C11: load_pdf never raises; for a path without a file, and when reading
\* the file raises, it returns a result with success = false and the error
\* message, and neither the loaded PDFs nor the quotes change.
C11_LoadPdfNeverRaises ==
    /\ load.outcome \in {"none", "running", "returned"}
    /\ (load.outcome = "returned" /\ LoadedInput.kind # "file") =>
          /\ ~load.result.success
          /\ load.result.error # <<>>
          /\ loaded_pdfs = load.pdfs_before
    /\ (load.outcome = "returned" /\ LoadedInput.kind = "missing") =>
          load.result.error = <<"PDF file not found: ">> \o load.path

C11_Witness ==
    /\ load.outcome = "returned"
    /\ load.path = PDF_missing.path
    /\ ~load.result.success
    /\ load.result.error = <<"PDF file not found: ", "missing.pdf">>
    /\ loaded_pdfs # <<>>

\* C12 as stated: when the file exists and each of the three extraction
\* strategies yields the empty string, load_pdf returns a result with
\* success = false and an error string, and appends no record to the loaded
\* PDFs.
C12_EmptyExtractionFails ==
    (/\ load.outcome = "returned"
     /\ LoadedInput.kind = "file"
     /\ extract_text_pymupdf(LoadedInput) = <<>>
     /\ extract_text_pdfplumber(LoadedInput) = <<>>
     /\ extract_text_pypdf2(LoadedInput) = <<>>) =>
        /\ ~load.result.success
        /\ load.result.error # <<>>
        /\ loaded_pdfs = load.pdfs_before

\* the pair of consecutive double quotes k of t encloses QuoteMinLen
\* characters or more
Eligible(ps, k) == ps[k + 1] - ps[k] - 1 >= QuoteMinLen

\* the scan from the left takes pair k: it is eligible, and the eligible
\* pairs right before it are an even number (each match uses up the quote
\* that would open the next pair)
Taken(ps, k) ==
    /\ Eligible(ps, k)
    /\ \E j \in 0..(k - 1) :
         /\ (k - 1 - j) % 2 = 0
         /\ \A i \in (j + 1)..(k - 1) : Eligible(ps, i)
         /\ j > 0 => ~Eligible(ps, j)

\* the quoted segments of t a scan from the left finds, in text order
QuotedSegments(t) ==
    LET ps == QuotePositions(t)
        taken == SelectSeq([k \in 1..(Len(ps) - 1) |-> k], LAMBDA k : Taken(ps, k))
    IN  [n \in 1..Len(taken) |-> SubSeq(t, ps[taken[n]] + 1, ps[taken[n] + 1] - 1)]

\* the elements of l that are not in base, each once, in the order of l
NewIn(l, base) ==
    SelectSeq([i \in 1..Len(l) |-> i],
              LAMBDA i : ~InList(l[i], base) /\ \A j \in 1..(i - 1) : l[j] # l[i])

ClearStep ==
    /\ pc[Engine] = "idle" /\ pc'[Engine] = "idle"
    /\ last'.name = "clear"
    /\ last'.before = transcript
    /\ last.name # "clear" \/ transcript # <<>>

\* C17: clear_memory leaves the transcript empty and leaves the concepts,
\* the quotes, the snapshot file and the loaded PDFs as they are.
C17_ClearKeepsStoreAndPdfs ==
    [][ClearStep =>
          /\ transcript' = <<>>
          /\ soros_concepts' = soros_concepts
          /\ soros_quotes' = soros_quotes
          /\ file' = file
          /\ loaded_pdfs' = loaded_pdfs]_vars

C17_Witness ==
    /\ last.name = "clear"
    /\ last.before # <<>>
    /\ transcript = <<>>
    /\ loaded_pdfs # <<>>
    /\ Len(soros_quotes[Engine]) > Len(SeedQuotes)
    /\ file.kind = "json"

\* C18: the system prompt is set at construction and no call of chat,
\* load_pdf, add_quote, add_concept or clear_memory changes it; the first
\* message of every outbound sequence holds it.
C18_SystemPromptFixed ==
    [][/\ (pc[Engine] = "down" /\ pc'[Engine] # "down") =>
             system_prompt' = CreateSystemPrompt
       /\ (pc[Engine] # "down" /\ pc'[Engine] # "down") =>
             system_prompt' = system_prompt
       /\ (pc'[Engine] # "down" /\ outbound' # <<>>) =>
             /\ outbound'[1].role = "system"
             /\ outbound'[1].content = system_prompt]_vars

C18_Witness ==
    /\ pc[Engine] = "idle"
    /\ last.name = "chat"
    /\ Len(soros_concepts[Engine]) > Len(SeedConcepts)
    /\ Len(soros_quotes[Engine]) > Len(SeedQuotes)
    /\ loaded_pdfs # <<>>
    /\ outbound[1].content = system_prompt
    /\ system_prompt = CreateSystemPrompt

(***************************************************************************)
(* Claims about get_random_quote and search_concepts.                      *)
(***************************************************************************)
\* C19: get_random_quote on a non-empty quote collection returns a member
\* of the collection, and every member can be returned; the draw on an empty
\* list raises an error and returns no value.  (The quotes are never empty
\* once the store is constructed: the draw on the empty list is stated of
\* the function.)
C19_RandomQuoteIsMember ==
    /\ answer.name = "random_quote" =>
          /\ answer.outcome = "returned"
          /\ answer.value # <<>>
          /\ InList(answer.value, soros_quotes[Engine])
    /\ pc[Engine] = "idle" =>
          /\ soros_quotes[Engine] # <<>>
          /\ \A drawn \in RandomChoice(soros_quotes[Engine]) :
                ~drawn.raised /\ InList(drawn.value, soros_quotes[Engine])
          /\ \A k \in 1..Len(soros_quotes[Engine]) :
                Returned(soros_quotes[Engine][k]) \in RandomChoice(soros_quotes[Engine])
    /\ \A drawn \in RandomChoice(<<>>) : drawn.raised /\ drawn.error # <<>>
    /\ RandomChoice(<<>>) # {}

C19_Witness ==
    /\ answer.name = "random_quote"
    /\ answer.outcome = "returned"
    /\ answer.value \in QuoteInputs
    /\ InList(answer.value, soros_quotes[Engine])
    /\ Len(soros_quotes[Engine]) > Len(SeedQuotes) + 1

\* a step of search_knowledge_base that gave a new answer
SearchStep == answer' # answer /\ answer'.name = "search"

\* C20: search_concepts returns, in the order of the mapping, exactly the
\* concepts whose lower-cased name, definition or one of whose lower-cased
\* key points contains the lower-cased query; so two queries that are equal
\* after lower-casing give the same result sequence.
C20_SearchIgnoresCase ==
    [][SearchStep =>
          LET query_lower == Lower(answer'.arg)
              Hit(e) ==
                  \/ InText(query_lower, Lower(e.name))
                  \/ InText(query_lower, Lower(e.definition))
                  \/ \E k \in 1..Len(e.key_points) :
                        InText(query_lower, Lower(e.key_points[k]))
          IN  /\ answer'.value = SelectSeq(soros_concepts[Engine], Hit)
              /\ \A other \in Queries :
                    Lower(other) = query_lower =>
                       search_concepts(Engine, other) = answer'.value]_vars

C20_Witness ==
    /\ answer.name = "search"
    /\ answer.arg = QY_MARKET
    /\ Len(answer.value) = 3
    /\ answer.value[3].name = N_bubble
    /\ search_concepts(Engine, QY_market) = answer.value
    /\ Len(soros_concepts[Engine]) = 4

(***************************************************************************)
(* Claims about the HTTP API.                                              *)
(***************************************************************************)
StatusEndpoints == {"/", "/health"}

\* startup ended in the except branches of startup_event
StartupFailed ==
    /\ response.endpoint = "startup"
    /\ response.detail \in {"Configuration error", "Failed to initialize chatbot"}

\* C14 as stated: without an engine every endpoint other than / and
\* /health answers 503, and a failed configuration validation or engine
\* construction at startup leaves the server in that state.
C14_AllButStatusEndpointsAnswer503 ==
    /\ (chatbot = "none" /\ response.endpoint \in Endpoints \ StatusEndpoints) =>
          response.status = 503
    /\ StartupFailed => chatbot = "none"

\* C14, amended: without an engine every endpoint other than /, /health and
\* /config answers 503, and these three answer 200; a failed configuration
\* validation or engine construction at startup leaves the server without
\* an engine, taking requests.
C14_AllButStatusAndConfigAnswer503 ==
    /\ (chatbot = "none" /\ response.endpoint \in Endpoints \ (StatusEndpoints \cup {"/config"})) =>
          response.status = 503 /\ ~response.success
    /\ (chatbot = "none" /\ response.endpoint \in StatusEndpoints \cup {"/config"}) =>
          response.status = 200
    /\ StartupFailed => chatbot = "none"
    /\ response.endpoint = "startup" => (response.success <=> chatbot = "up")
    /\ chatbot = "none" => Ready /\ pc[Engine] = "down" /\ loaded_pdfs = <<>>

\* construction failed after the store was written, and a request was answered
C14_Witness ==
    /\ chatbot = "none"
    /\ file.kind = "json"
    /\ response = Response("/upload-pdf", 503, FALSE, "Chatbot not available")

\* the name ends in .pdf, whatever the case of its letters
NamedPdf(filename) ==
    LET n == Len(filename)
    IN  /\ n >= 4
        /\ filename[n - 3] = "."
        /\ filename[n - 2] \in {"p", "P"}
        /\ filename[n - 1] \in {"d", "D"}
        /\ filename[n] \in {"f", "F"}

\* C15: an /upload-pdf request whose file name does not end in .pdf
\* (in any case) is answered with a 4xx status by a running engine, with no
\* temporary file written, no load_pdf started and the loaded PDFs, quotes,
\* concepts and store file as they were.  (Without an engine the answer
\* is the 503 of every engine endpoint, with as little done.)
C15_NonPdfNameRejected ==
    [][\A u \in Uploads :
          (~NamedPdf(u.filename) /\ upload_pdf(u)) =>
             /\ response'.endpoint = "/upload-pdf"
             /\ ~response'.success
             /\ chatbot = "up" => response'.status \in 400..499
             /\ chatbot = "none" => response'.status = 503
             /\ tmp_files' = tmp_files
             /\ UNCHANGED <<loaded_pdfs, pending, load, soros_quotes, soros_concepts,
                            file, pc, calls>>]_vars

\* after one PDF was taken in, notes.txt was refused
C15_Witness ==
    /\ chatbot = "up"
    /\ response = Response("/upload-pdf", 400, FALSE, "File must be a PDF")
    /\ Len(loaded_pdfs) = 1
    /\ tmp_files = 1
    /\ pc[Engine] = "idle"

\* C16 as stated: an upload larger than MAX_PDF_SIZE_MB is answered with a
\* 4xx status, with no temporary file written and no load_pdf started.
C16_OversizedUploadRejected ==
    [][\A u \in Uploads :
          (u.size_mb > MAX_PDF_SIZE_MB /\ chatbot = "up" /\ upload_pdf(u)) =>
             /\ response'.status \in 400..499
             /\ tmp_files' = tmp_files
             /\ UNCHANGED <<loaded_pdfs, pending, load>>]_vars

(***************************************************************************)
(* Claims about add_concept, construction and add_quote.                   *)
(***************************************************************************)
\* the entries of mapping d under a name
Under(d, name) == {i \in 1..Len(d) : d[i].name = name}

\* C22: add_concept(name, definition, key_points) is an upsert: afterwards
\* the mapping holds the name once, with exactly the given definition and
\* key points; every other concept is as it was; and no step of a living
\* store takes a name out of its mapping.
C22_AddConceptUpserts ==
    [][/\ \A e \in ConceptInputs :
             add_concept(Engine, e) =>
                LET before == soros_concepts[Engine]
                    after == soros_concepts'[Engine]
                IN  /\ Cardinality(Under(after, e.name)) = 1
                    /\ \A i \in Under(after, e.name) : after[i] = e
                    /\ \A i \in 1..Len(before) :
                          before[i].name # e.name => after[i] = before[i]
                    /\ Len(after) = Len(before) + (IF Under(before, e.name) = {} THEN 1 ELSE 0)
       /\ (pc[Engine] # "down" /\ pc'[Engine] # "down") =>
             \A i \in 1..Len(soros_concepts[Engine]) :
                Under(soros_concepts'[Engine], soros_concepts[Engine][i].name) # {}]_vars

\* a seed concept was overwritten, and a new one added after it
C22_Witness ==
    /\ pc[Engine] = "idle"
    /\ op[Engine].name = "add_concept"
    /\ op[Engine].arg = N_bubble
    /\ Len(soros_concepts[Engine]) = Len(SeedConcepts) + 1
    /\ soros_concepts[Engine][1] = Entry(N_reflexivity, D_custom, <<K_fallibility>>)
    /\ soros_concepts[Engine][Len(SeedConcepts) + 1] = Entry(N_bubble, D_bubble, <<>>)

\* the value mapping d holds under a name
ValueOf(d, name) == d[CHOOSE i \in 1..Len(d) : d[i].name = name]

\* store s is the merge of the seed and document doc: a name of the document
\* has the document's value, another seed name the seed's, there is no
\* other name; the quotes are the seed quotes, then those of the document
MergedFrom(concepts, quotes, doc) ==
    LET disk == ConceptsFromJson(doc)
    IN  /\ \A i \in 1..Len(disk) :
              Under(concepts, disk[i].name) # {} /\ ValueOf(concepts, disk[i].name) = disk[i]
        /\ \A i \in 1..Len(SeedConcepts) :
              Under(disk, SeedConcepts[i].name) = {} =>
                 /\ Under(concepts, SeedConcepts[i].name) # {}
                 /\ ValueOf(concepts, SeedConcepts[i].name) = SeedConcepts[i]
        /\ \A i \in 1..Len(concepts) :
              /\ Cardinality(Under(concepts, concepts[i].name)) = 1
              /\ Under(disk, concepts[i].name) # {} \/ Under(SeedConcepts, concepts[i].name) # {}
        /\ quotes = SeedQuotes \o QuotesFromJson(doc)

\* the first step of a construction, and the step that ends one
ConstructStep == pc[Engine] = "down" /\ pc'[Engine] # "down"
ConstructEnd == op'[Engine].name = "init" /\ pc[Engine] # "idle" /\ pc'[Engine] = "idle"

C25_AddQuoteWritesOnlyOnAppend ==
    [][\A q \in QuoteInputs :
          add_quote(Engine, q) =>
             IF InList(q, soros_quotes[Engine])
             THEN /\ UNCHANGED <<soros_quotes, soros_concepts, file, save_result, faults>>
                  /\ pc'[Engine] = "idle"
             ELSE /\ soros_quotes'[Engine] = Append(soros_quotes[Engine], q)
                  /\ save_result'[Engine] \in {"writing", "failed"}
                  /\ save_result'[Engine] = "writing" =>
                        pc'[Engine] = "saving" /\ file' = EmptyFile]_vars

\* a quote was added again while the file held it
C25_Witness ==
    /\ op[Engine].name = "add_quote_present"
    /\ save_result[Engine] = "ok"
    /\ pc[Engine] = "idle"
    /\ FileHolds(file, Engine)
    /\ InList(op[Engine].arg, QuotesFromJson(file.doc))
    /\ calls >= 2

\* no two positions of l hold the same string
Distinct(l) == \A i, j \in 1..Len(l) : l[i] = l[j] => i = j

\* C27 as stated: the quote collection of a store never holds a string
\* twice, also directly after a construction from the file an earlier store
\* instance wrote, and such a construction gives as many quotes as the file
\* holds.
C27_QuotesStayDistinct ==
    [][/\ Distinct(soros_quotes'[Engine])
       /\ (ConstructStep /\ file.kind = "json") =>
             Len(soros_quotes'[Engine]) = Len(QuotesFromJson(file.doc))]_vars

(***************************************************************************)
(* Claims about the shape of the transcript.                               *)
(***************************************************************************)
IsPrefix(a, b) == Len(a) <= Len(b) /\ SubSeq(b, 1, Len(a)) = a

ChatStep == last'.name = "chat" /\ calls' = calls + 1

\* C28: in every state the transcript has even length and alternates user,
\* assistant from a user turn on; across a chat call, successful or failing,
\* the earlier transcript is a prefix of the later one, and while the engine
\* lives the only step after which it is not is clear_memory.
C28_TranscriptAlternates ==
    [][/\ Len(transcript') % 2 = 0
       /\ \A i \in 1..Len(transcript') :
             transcript'[i].role = IF i % 2 = 1 THEN "user" ELSE "assistant"
       /\ ChatStep => IsPrefix(transcript, transcript')
       /\ (pc'[Engine] # "down" /\ ~IsPrefix(transcript, transcript')) => ClearStep]_vars

C28_Witness ==
    /\ last.name = "chat"
    /\ last.outcome = "llm_error"
    /\ Len(last.before) = 4
    /\ transcript = last.before

(***************************************************************************)
(* Claims about the windows of split_into_chunks.                          *)
(***************************************************************************)
\* C29: for a text of n >= 1 words and 0 <= overlap < chunk_size the call
\* returns ceil(n / (chunk_size - overlap)) non-empty chunks, chunk k (from
\* 0) being the words from k * (chunk_size - overlap) up to chunk_size
\* further, cut at n, joined by single spaces; so every word is in a chunk
\* and no chunk has more than chunk_size words.  With overlap = chunk_size
\* the call raises, with overlap > chunk_size it returns no chunk.
C29_ChunksAreWindows ==
    LET ws == Split(text)
        n == Len(ws)
        step == chunk_size - overlap
        upto(i) == IF i + chunk_size < n THEN i + chunk_size ELSE n
        chunked == UNION { {chunks[k][j] : j \in 1..Len(chunks[k])} : k \in 1..Len(chunks) }
    IN  /\ (cpc = "returned" /\ n >= 1 /\ overlap < chunk_size) =>
              /\ Len(chunks) = CeilDiv(n, step)
              /\ \A k \in 1..Len(chunks) :
                    /\ chunks[k] # <<>>
                    /\ chunks[k] = Join(SubSeq(ws, (k - 1) * step + 1, upto((k - 1) * step)))
                    /\ Len(Split(chunks[k])) <= chunk_size
              /\ \A w \in 1..n : ws[w] \in chunked
        /\ (cpc # "input" /\ overlap = chunk_size) => cpc = "raised"
        /\ (cpc # "input" /\ overlap > chunk_size) => (cpc = "returned" /\ chunks = <<>>)

C29_Witness ==
    /\ cpc = "returned"
    /\ Len(Words) = 5
    /\ chunk_size = 3
    /\ overlap = 1
    /\ Len(chunks) = 3
    /\ Len(Split(chunks[3])) = 1

(***************************************************************************)
(* Claims about a failed load_pdf and the count of loaded PDFs.            *)
(***************************************************************************)
\* load_pdf returns a result with success = false
FailedLoadStep ==
    /\ load'.outcome = "returned"
    /\ ~load'.result.success
    /\ \E pdf \in PdfInputs : load_pdf(pdf)

\* C30: a load_pdf that returns success = false leaves the loaded PDFs, the
\* quotes, the concepts, the snapshot file and the transcript as they were;
\* and whenever the engine takes a call, the loaded_pdfs of get_system_stats,
\* the number of records, is the number of load_pdf calls that returned
\* success.
C30_FailedLoadChangesNothing ==
    [][/\ FailedLoadStep =>
             /\ loaded_pdfs' = loaded_pdfs
             /\ soros_quotes' = soros_quotes
             /\ soros_concepts' = soros_concepts
             /\ file' = file
             /\ transcript' = transcript
       /\ pc'[Engine] = "idle" => Len(loaded_pdfs') = load'.successes]_vars

C30_Witness ==
    /\ load.outcome = "returned"
    /\ ~load.result.success
    /\ load.path = PDF_not_a_path.path
    /\ load.successes = 1
    /\ Len(loaded_pdfs) = 1
    /\ transcript # <<>>

(***************************************************************************)
(* Claims about the PDF reader.                                            *)
(***************************************************************************)
\* what the three strategies give on the reader's file, in the order they
\* are tried; a strategy that threw gives the empty text
StrategyTexts ==
    <<extract_text_pymupdf(reader.pdf), extract_text_pdfplumber(reader.pdf),
      extract_text_pypdf2(reader.pdf)>>

\* the strategies that threw on the reader's file
Thrown ==
    {j \in 1..3 : ~<<reader.pdf.pymupdf, reader.pdf.pdfplumber, reader.pdf.pypdf2>>[j].ok}

\* C24: the text extract_text_combined keeps is that of the first strategy,
\* in the order tried, whose text is the longest of the three; a strategy
\* that threw counts as the empty text, and the strategies after it are
\* still tried.
C24_LongestTextFirstOnTie ==
    reader.rpc # "input" =>
        /\ \E j \in 1..3 :
             /\ reader.raw_text = StrategyTexts[j]
             /\ \A i \in 1..3 : Len(StrategyTexts[i]) <= Len(StrategyTexts[j])
             /\ \A i \in 1..(j - 1) : Len(StrategyTexts[i]) < Len(StrategyTexts[j])
        /\ \A j \in Thrown : StrategyTexts[j] = <<>>
        /\ \A j \in (1..3) \ Thrown :
             Len(reader.raw_text) >= Len(StrategyTexts[j])

C24_Witness ==
    /\ reader.rpc = "extracted"
    /\ Thrown = {1}
    /\ Len(StrategyTexts[2]) = Len(StrategyTexts[3])
    /\ StrategyTexts[2] # StrategyTexts[3]
    /\ reader.raw_text = StrategyTexts[2]
    /\ reader.raw_text # <<>>

\* the lines of t: the runs between newlines
LinesOf(t) ==
    LET breaks == SelectSeq([i \in 1..(Len(t) + 1) |-> i],
                            LAMBDA i : i = Len(t) + 1 \/ t[i] = "\n")
    IN  [k \in 1..Len(breaks) |->
            SubSeq(t, (IF k = 1 THEN 1 ELSE breaks[k - 1] + 1), breaks[k] - 1)]

\* C26: of a raw text of several lines, no line made of digits alone is a
\* word of the cleaned text.
C26_PageNumberLinesStripped ==
    reader.rpc = "cleaned" =>
        LET lines == LinesOf(reader.raw_text)
        IN  \A k \in 1..Len(lines) :
              (/\ Len(lines) > 1
               /\ lines[k] # <<>>
               /\ \A i \in 1..Len(lines[k]) : lines[k][i] \in Digits) =>
                  ~InList(lines[k], SplitWords(reader.cleaned_text))

(***************************************************************************)
(* Claims about the context prompt.                                        *)
(***************************************************************************)
\* the positions of the token tok in the prompt p
PositionsOf(tok, p) == SelectSeq([i \in 1..Len(p) |-> i], LAMBDA i : p[i] = tok)

\* t is in p from position i on
At(p, i, t) == i + Len(t) - 1 <= Len(p) /\ SubSeq(p, i, i + Len(t) - 1) = t

\* generate_context_prompt returns a prompt
ContextStep ==
    /\ answer' # answer
    /\ answer'.name = "context"
    /\ answer'.outcome = "returned"

\* C21: the prompt generate_context_prompt returns holds one quote, a member
\* of the quote collection, after the one "Relevant quote" heading; one
\* "- name: definition" line for each of the first min(3, n) results of
\* search_concepts on the message, in the order of the search, and no
\* "Relevant concepts" heading and no such line when n = 0; and it ends with
\* the message as given.
C21_ContextPromptContents ==
    [][ContextStep =>
          LET p == answer'.value
              user_query == answer'.arg
              results == search_concepts(Engine, user_query)
              n == Len(results)
              shown == IF n < 3 THEN n ELSE 3
              headings == PositionsOf("Relevant concepts:\n", p)
              dashes == PositionsOf("- ", p)
          IN  /\ Len(p) > 1
              /\ PositionsOf(p[1], p) = <<1>>
              /\ \E k \in 1..Len(soros_quotes[Engine]) :
                    At(p, 2, soros_quotes[Engine][k] \o <<"\"\n\n">>)
              /\ Len(headings) = (IF n = 0 THEN 0 ELSE 1)
              /\ Len(dashes) = shown
              /\ \A i \in 1..shown :
                    /\ headings[1] < dashes[i]
                    /\ At(p, dashes[i] + 1,
                          results[i].name \o <<": ">> \o results[i].definition \o <<"\n">>)
              /\ At(p, Len(p) - Len(user_query) + 1, user_query)]_vars

C21_Witness ==
    /\ answer.name = "context"
    /\ answer.outcome = "returned"
    /\ answer.arg = <<>>
    /\ Len(search_concepts(Engine, answer.arg)) = 4
    /\ Len(PositionsOf("- ", answer.value)) = 3
    /\ At(answer.value, 2, Q_custom)

====
